---- MODULE Spec2Model ----
(***************************************************************************)
(* Answer grading of the math-reasoning domain: the syntactic ("mathd")    *)
(* normalizer of response_normalization.py, the extended normalizer, the   *)
(* tuple splitter, the guard of the symbolic tier and grade_answer of      *)
(* evaluation.py.                                                          *)
(*                                                                         *)
(* A Python str is a sequence of one-character strings; the absent value   *)
(* None and a raised exception are two sequences no str can equal.         *)
(***************************************************************************)
EXTENDS Integers, Sequences, FiniteSets, TLC

None == <<"<None>">>
Raise == <<"<raise>">>

(***************************************************************************)
(* Python built-ins on str, as the source uses them.                       *)
(***************************************************************************)
Digits == {"0", "1", "2", "3", "4", "5", "6", "7", "8", "9"}

Whitespace == {" ", "\n", "\t"}

LowerLetters ==
    {"a", "b", "c", "d", "e", "f", "g", "h", "i", "j", "k", "l", "m",
     "n", "o", "p", "q", "r", "s", "t", "u", "v", "w", "x", "y", "z"}

UpperLetters ==
    {"A", "B", "C", "D", "E", "F", "G", "H", "I", "J", "K", "L", "M",
     "N", "O", "P", "Q", "R", "S", "T", "U", "V", "W", "X", "Y", "Z"}

\* the characters latex_to_text can leave behind and _parse_latex rewrites
SQRT_SIGN == "U+221A"
PI_SIGN == "U+03C0"
INF_SIGN == "U+221E"
CUP_SIGN == "U+222A"
CDOT_SIGN == "U+00B7"
TIMES_SIGN == "U+00D7"

IsDigit(c) == c \in Digits

\* str.isalpha of one character
IsAlpha(c) == c \in LowerLetters \cup UpperLetters \cup {PI_SIGN}

DigitVal(c) ==
    CASE c = "0" -> 0 [] c = "1" -> 1 [] c = "2" -> 2 [] c = "3" -> 3
      [] c = "4" -> 4 [] c = "5" -> 5 [] c = "6" -> 6 [] c = "7" -> 7
      [] c = "8" -> 8 [] c = "9" -> 9

DigitChar(d) ==
    CASE d = 0 -> "0" [] d = 1 -> "1" [] d = 2 -> "2" [] d = 3 -> "3"
      [] d = 4 -> "4" [] d = 5 -> "5" [] d = 6 -> "6" [] d = 7 -> "7"
      [] d = 8 -> "8" [] d = 9 -> "9"

LowerChar(c) ==
    CASE c = "A" -> "a" [] c = "B" -> "b" [] c = "C" -> "c" [] c = "D" -> "d"
      [] c = "E" -> "e" [] c = "F" -> "f" [] c = "G" -> "g" [] c = "H" -> "h"
      [] c = "I" -> "i" [] c = "J" -> "j" [] c = "K" -> "k" [] c = "L" -> "l"
      [] c = "M" -> "m" [] c = "N" -> "n" [] c = "O" -> "o" [] c = "P" -> "p"
      [] c = "Q" -> "q" [] c = "R" -> "r" [] c = "S" -> "s" [] c = "T" -> "t"
      [] c = "U" -> "u" [] c = "V" -> "v" [] c = "W" -> "w" [] c = "X" -> "x"
      [] c = "Y" -> "y" [] c = "Z" -> "z" [] OTHER -> c

\* str.lower
Lower(s) == [i \in 1..Len(s) |-> LowerChar(s[i])]

\* s[i-1:] of Python, for a 1-based i
From(s, i) == SubSeq(s, i, Len(s))

\* s.startswith(p, i-1)
StartsWithAt(s, i, p) ==
    /\ i + Len(p) - 1 <= Len(s)
    /\ \A k \in 1..Len(p) : s[i + k - 1] = p[k]

\* p in s, for a non-empty p
Contains(s, p) == \E i \in 1..Len(s) : StartsWithAt(s, i, p)

RECURSIVE ReplaceFrom(_, _, _, _)
ReplaceFrom(s, i, old, new) ==
    IF i > Len(s) THEN <<>>
    ELSE IF StartsWithAt(s, i, old)
         THEN new \o ReplaceFrom(s, i + Len(old), old, new)
         ELSE <<s[i]>> \o ReplaceFrom(s, i + 1, old, new)

\* s.replace(old, new), for a non-empty old
Replace(s, old, new) == ReplaceFrom(s, 1, old, new)

RECURSIVE SplitFrom(_, _, _, _)
SplitFrom(s, i, sep, cur) ==
    IF i > Len(s) THEN <<cur>>
    ELSE IF StartsWithAt(s, i, sep)
         THEN <<cur>> \o SplitFrom(s, i + Len(sep), sep, <<>>)
         ELSE SplitFrom(s, i + 1, sep, Append(cur, s[i]))

\* s.split(sep), for a non-empty sep
Split(s, sep) == SplitFrom(s, 1, sep, <<>>)

RECURSIVE LStrip(_)
LStrip(s) ==
    IF Len(s) > 0 /\ s[1] \in Whitespace THEN LStrip(Tail(s)) ELSE s

RECURSIVE RStrip(_)
RStrip(s) ==
    IF Len(s) > 0 /\ s[Len(s)] \in Whitespace
    THEN RStrip(SubSeq(s, 1, Len(s) - 1))
    ELSE s

\* s.strip()
Strip(s) == RStrip(LStrip(s))

AllDigits(s) == \A i \in 1..Len(s) : IsDigit(s[i])

RECURSIVE DigitsVal(_)
DigitsVal(s) ==
    IF Len(s) = 0 THEN 0
    ELSE 10 * DigitsVal(SubSeq(s, 1, Len(s) - 1)) + DigitVal(s[Len(s)])

RECURSIVE NatToStr(_)
NatToStr(n) ==
    IF n < 10 THEN <<DigitChar(n)>>
    ELSE Append(NatToStr(n \div 10), DigitChar(n % 10))

\* str(n) of an int
IntToStr(n) == IF n < 0 THEN <<"-">> \o NatToStr(0 - n) ELSE NatToStr(n)

RECURSIVE Pow10(_)
Pow10(k) == IF k <= 0 THEN 1 ELSE 10 * Pow10(k - 1)

\* int(s) of a str: surrounding whitespace, one sign, decimal digits
\* ('_' between digits is not in any string of the model)
IntOk(s) ==
    LET t == Strip(s)
        b == IF Len(t) > 0 /\ t[1] \in {"+", "-"} THEN Tail(t) ELSE t
    IN  Len(b) > 0 /\ AllDigits(b)

IntVal(s) ==
    LET t == Strip(s)
        b == IF t[1] \in {"+", "-"} THEN Tail(t) ELSE t
    IN  IF t[1] = "-" THEN 0 - DigitsVal(b) ELSE DigitsVal(b)

(***************************************************************************)
(* float(s): surrounding whitespace, a sign, then inf, infinity or nan in  *)
(* any case, or digits with at most one '.' and an optional exponent.  A   *)
(* value below 2^24 with at most nine fraction digits is kept exactly, as  *)
(* int + frac / 10^scale with its sign; NearInt accounts for the rounding  *)
(* of the double where it matters.  Digits that denote 2^1024 - 2^970 or   *)
(* more give the double inf.                                               *)
(***************************************************************************)
FloatBody(s) ==
    LET t == Strip(s)
    IN  IF Len(t) > 0 /\ t[1] \in {"+", "-"} THEN Tail(t) ELSE t

FloatNeg(s) == LET t == Strip(s) IN Len(t) > 0 /\ t[1] = "-"

FloatSpecial(s) ==
    Lower(FloatBody(s)) \in
        {<<"i", "n", "f">>, <<"n", "a", "n">>,
         <<"i", "n", "f", "i", "n", "i", "t", "y">>}

ExpPos(b) ==
    IF \E i \in 1..Len(b) : b[i] \in {"e", "E"}
    THEN CHOOSE i \in 1..Len(b) :
            /\ b[i] \in {"e", "E"}
            /\ \A j \in 1..(i - 1) : b[j] \notin {"e", "E"}
    ELSE 0

MantPart(b) == IF ExpPos(b) = 0 THEN b ELSE SubSeq(b, 1, ExpPos(b) - 1)

ExpPart(b) == IF ExpPos(b) = 0 THEN <<>> ELSE From(b, ExpPos(b) + 1)

MantOk(m) ==
    /\ \A i \in 1..Len(m) : IsDigit(m[i]) \/ m[i] = "."
    /\ Cardinality({i \in 1..Len(m) : m[i] = "."}) <= 1
    /\ \E i \in 1..Len(m) : IsDigit(m[i])

ExpOk(x) ==
    LET d == IF Len(x) > 0 /\ x[1] \in {"+", "-"} THEN Tail(x) ELSE x
    IN  Len(d) > 0 /\ AllDigits(d)

FloatFinite(s) ==
    LET b == FloatBody(s)
    IN  /\ MantOk(MantPart(b))
        /\ ExpPos(b) = 0 \/ ExpOk(ExpPart(b))

\* float(s) does not raise ValueError
FloatOk(s) == FloatSpecial(s) \/ FloatFinite(s)

DotPos(m) ==
    IF \E i \in 1..Len(m) : m[i] = "."
    THEN CHOOSE i \in 1..Len(m) : m[i] = "."
    ELSE Len(m) + 1

ExpVal(x) ==
    IF Len(x) = 0 THEN 0
    ELSE IF x[1] = "-" THEN 0 - DigitsVal(Tail(x))
    ELSE IF x[1] = "+" THEN DigitsVal(Tail(x))
    ELSE DigitsVal(x)

Zeros(n) == [i \in 1..n |-> "0"]

\* the digits before and after the decimal point, once the exponent e has moved it
ShiftedInt(id, fd, e) ==
    IF e >= 0
    THEN id \o SubSeq(fd \o Zeros(e), 1, e)
    ELSE SubSeq(Zeros(0 - e) \o id, 1, Len(id))

ShiftedFrac(id, fd, e) ==
    IF e >= 0
    THEN SubSeq(fd, e + 1, Len(fd))
    ELSE From(Zeros(0 - e) \o id, Len(id) + 1) \o fd

\* the decimal digits of 2^1024 - 2^970, half-way between the largest double
\* and 2^1024: float() rounds it, and everything above it, to inf
DOUBLE_OVERFLOW ==
    << 1, 7, 9, 7, 6, 9, 3, 1, 3, 4, 8, 6, 2, 3, 1, 5, 8, 0, 7, 9, 3, 7, 2, 8, 9, 7, 1, 4, 0, 5,
       3, 0, 3, 4, 1, 5, 0, 7, 9, 9, 3, 4, 1, 3, 2, 7, 1, 0, 0, 3, 7, 8, 2, 6, 9, 3, 6, 1, 7, 3,
       7, 7, 8, 9, 8, 0, 4, 4, 4, 9, 6, 8, 2, 9, 2, 7, 6, 4, 7, 5, 0, 9, 4, 6, 6, 4, 9, 0, 1, 7,
       9, 7, 7, 5, 8, 7, 2, 0, 7, 0, 9, 6, 3, 3, 0, 2, 8, 6, 4, 1, 6, 6, 9, 2, 8, 8, 7, 9, 1, 0,
       9, 4, 6, 5, 5, 5, 5, 4, 7, 8, 5, 1, 9, 4, 0, 4, 0, 2, 6, 3, 0, 6, 5, 7, 4, 8, 8, 6, 7, 1,
       5, 0, 5, 8, 2, 0, 6, 8, 1, 9, 0, 8, 9, 0, 2, 0, 0, 0, 7, 0, 8, 3, 8, 3, 6, 7, 6, 2, 7, 3,
       8, 5, 4, 8, 4, 5, 8, 1, 7, 7, 1, 1, 5, 3, 1, 7, 6, 4, 4, 7, 5, 7, 3, 0, 2, 7, 0, 0, 6, 9,
       8, 5, 5, 5, 7, 1, 3, 6, 6, 9, 5, 9, 6, 2, 2, 8, 4, 2, 9, 1, 4, 8, 1, 9, 8, 6, 0, 8, 3, 4,
       9, 3, 6, 4, 7, 5, 2, 9, 2, 7, 1, 9, 0, 7, 4, 1, 6, 8, 4, 4, 4, 3, 6, 5, 5, 1, 0, 7, 0, 4,
       3, 4, 2, 7, 1, 1, 5, 5, 9, 6, 9, 9, 5, 0, 8, 0, 9, 3, 0, 4, 2, 8, 8, 0, 1, 7, 7, 9, 0, 4,
       1, 7, 4, 4, 9, 7, 7, 9, 2 >>

\* d without its leading zeros
DropZeros(d) ==
    LET nz == {i \in 1..Len(d) : d[i] # "0"}
    IN  IF nz = {} THEN <<>>
        ELSE From(d, CHOOSE i \in nz : \A j \in nz : i <= j)

\* the digit string a is as long as the digits b and denotes at least as much
DigitsGeq(a, b) ==
    LET diff == {i \in 1..Len(a) : DigitVal(a[i]) # b[i]}
        first == CHOOSE i \in diff : \A j \in diff : i <= j
    IN  diff = {} \/ DigitVal(a[first]) > b[first]

\* float(s) is inf or -inf although s is written with digits
FloatOverflows(s) ==
    LET b == FloatBody(s)
        m == MantPart(b)
        e == ExpVal(ExpPart(b))
        d == DropZeros(ShiftedInt(SubSeq(m, 1, DotPos(m) - 1), From(m, DotPos(m) + 1), e))
    IN  \/ Len(d) > Len(DOUBLE_OVERFLOW)
        \/ Len(d) = Len(DOUBLE_OVERFLOW) /\ DigitsGeq(d, DOUBLE_OVERFLOW)

\* the finite value of float(s): (-1)^neg * (int + frac / 10^scale)
FloatVal(s) ==
    LET b == FloatBody(s)
        m == MantPart(b)
        e == ExpVal(ExpPart(b))
        id == SubSeq(m, 1, DotPos(m) - 1)
        fd == From(m, DotPos(m) + 1)
    IN  [neg |-> FloatNeg(s),
         int |-> DigitsVal(ShiftedInt(id, fd, e)),
         frac |-> DigitsVal(ShiftedFrac(id, fd, e)),
         scale |-> Len(ShiftedFrac(id, fd, e))]

\* the numerator, over 10^scale, of the distance of v to the nearest integer
FracDist(v) ==
    IF 2 * v.frac <= Pow10(v.scale) THEN v.frac ELSE Pow10(v.scale) - v.frac

\* int(round(v)) for a v that is not half-way between two integers
RoundVal(v) ==
    LET a == IF 2 * v.frac <= Pow10(v.scale) THEN v.int ELSE v.int + 1
    IN  IF v.neg THEN 0 - a ELSE a

\* int(v): truncation towards zero
TruncVal(v) == IF v.neg THEN 0 - v.int ELSE v.int

\* the distance of v to the nearest integer against 1e-7, in exact arithmetic:
\* -1 for below, 0 for equal, 1 for above
DistCmp(v) ==
    LET d == IF v.scale <= 7 THEN FracDist(v) * Pow10(7 - v.scale) ELSE FracDist(v)
        t == IF v.scale <= 7 THEN 1 ELSE Pow10(v.scale - 7)
    IN  IF d < t THEN -1 ELSE IF d = t THEN 0 ELSE 1

\* floor(log2(n)) for n >= 1
RECURSIVE Log2Floor(_)
Log2Floor(n) == IF n < 2 THEN 0 ELSE 1 + Log2Floor(n \div 2)

\* the leading fraction bits of the binary significand of 1e-7, which is
\* 0x1.ad7f29abcaf48p-24 as a double (rounded down from the decimal value)
SIGNIFICAND_1E_7 ==
    << 1, 0, 1, 0,  1, 1, 0, 1,  0, 1, 1, 1,  1, 1, 1, 1,
       0, 0, 1, 0,  1, 0, 0, 1,  1, 0, 1, 0,  1, 0, 1, 1 >>

\* abs(x - int(round(x))) <= 1e-7 for an x written at exactly 1e-7 from the
\* integer n: float(x) is n -+ (1e-7 rounded to the spacing 2^(e-52) of the
\* doubles around x, e the binary exponent of x), the subtraction is exact, and
\* the result is <= the double 1e-7 iff that rounding was downwards, that is
\* iff the first fraction bit it drops, bit 29-e, is 0.  Around 0 the
\* difference is the double 1e-7 itself.
BoundaryNearInt(v) ==
    LET e == IF v.int = 0 THEN -1 ELSE Log2Floor(v.int)
    IN  IF v.int = 0 /\ 2 * v.frac <= Pow10(v.scale) THEN TRUE
        ELSE IF e >= 29 THEN FALSE
        ELSE SIGNIFICAND_1E_7[29 - e] = 0

\* abs(x - int(round(x))) <= 1e-7 in double arithmetic, for abs(x) < 2^24
\* written with at most nine fraction digits: the doubles around x are less
\* than 1e-9 apart, so that the decimal digits decide except at exactly 1e-7
NearInt(v) ==
    IF DistCmp(v) = 0 THEN BoundaryNearInt(v) ELSE DistCmp(v) < 0

(***************************************************************************)
(* response_normalization.py: the syntactic ("mathd") normalizer.          *)
(***************************************************************************)
BS == "\\"

TEXT_OPEN == <<BS, "t", "e", "x", "t", "{">>

FRAC == <<BS, "f", "r", "a", "c">>

SQRT == <<BS, "s", "q", "r", "t">>

FRAC_HALF == <<BS, "f", "r", "a", "c", "{", "1", "}", "{", "2", "}">>

\* re.search('^\\\\text\{(?P<text>.+?)\}$', s) is not None: '.' is any character
\* but a newline, '$' is the end or the place before one trailing newline
TextEnd(s) == IF Len(s) > 0 /\ s[Len(s)] = "\n" THEN Len(s) - 1 ELSE Len(s)

TextMatches(s) ==
    /\ StartsWithAt(s, 1, TEXT_OPEN)
    /\ TextEnd(s) >= Len(TEXT_OPEN) + 2
    /\ s[TextEnd(s)] = "}"
    /\ \A i \in (Len(TEXT_OPEN) + 1)..(TextEnd(s) - 1) : s[i] # "\n"

\* m.group('text')
TextGroup(s) == SubSeq(s, Len(TEXT_OPEN) + 1, TextEnd(s) - 1)

RECURSIVE FixFracsLoop(_, _, _, _)
FixFracsLoop(string, substrs, k, new_str) ==
    IF k > Len(substrs) THEN new_str
    ELSE LET substr == substrs[k]
             acc == new_str \o FRAC
         IN  IF Len(substr) = 0 THEN Raise
             ELSE IF substr[1] = "{"
                  THEN FixFracsLoop(string, substrs, k + 1, acc \o substr)
             ELSE IF Len(substr) < 2 THEN string
             ELSE IF substr[2] # "{"
                  THEN FixFracsLoop(string, substrs, k + 1,
                           acc \o <<"{", substr[1], "}", "{", substr[2], "}">>
                               \o From(substr, 3))
             ELSE FixFracsLoop(string, substrs, k + 1,
                      acc \o <<"{", substr[1], "}", substr[2]>>
                          \o From(substr, 3))

\* _fix_fracs with the slice substrs[1:] of line 30 left out
_fix_fracs_FromFirst(string) ==
    LET substrs == Split(string, FRAC)
    IN  FixFracsLoop(string, substrs, 1, substrs[1])

_fix_fracs(string) ==
    LET substrs == Split(string, FRAC)
    IN  FixFracsLoop(string, substrs, 2, substrs[1])

\* _fix_a_slash_b without the assert of line 66
_fix_a_slash_b_NoAssert(string) ==
    LET parts == Split(string, <<"/">>)
    IN  IF Len(parts) # 2 THEN string
        ELSE IF ~IntOk(parts[1]) \/ ~IntOk(parts[2]) THEN string
        ELSE FRAC \o <<"{">> \o IntToStr(IntVal(parts[1])) \o <<"}", "{">>
                  \o IntToStr(IntVal(parts[2])) \o <<"}">>

_fix_a_slash_b(string) ==
    LET parts == Split(string, <<"/">>)
    IN  IF Len(parts) # 2 THEN string
        ELSE IF ~(IntOk(parts[1]) /\ IntOk(parts[2])) THEN string
        ELSE LET a == IntToStr(IntVal(parts[1]))
                 b == IntToStr(IntVal(parts[2]))
             IN  IF string # a \o <<"/">> \o b THEN string
                 ELSE FRAC \o <<"{">> \o a \o <<"}", "{">> \o b \o <<"}">>

\* _remove_right_units without the assert of line 77
_remove_right_units_NoAssert(string) ==
    LET pat == <<BS, "t", "e", "x", "t", "{", " ">>
    IN  IF Contains(string, pat) THEN Split(string, pat)[1] ELSE string

_remove_right_units(string) ==
    LET pat == <<BS, "t", "e", "x", "t", "{", " ">>
    IN  IF Contains(string, pat)
        THEN IF Len(Split(string, pat)) # 2 THEN Raise
             ELSE Split(string, pat)[1]
        ELSE string

RECURSIVE FixSqrtLoop(_, _, _)
FixSqrtLoop(splits, k, new_string) ==
    IF k > Len(splits) THEN new_string
    ELSE LET split == splits[k]
         IN  IF Len(split) = 0 THEN Raise
             ELSE IF split[1] # "{"
                  THEN FixSqrtLoop(splits, k + 1,
                           new_string \o SQRT \o <<"{", split[1], "}">>
                               \o Tail(split))
             ELSE FixSqrtLoop(splits, k + 1, new_string \o SQRT \o split)

_fix_sqrt(string) ==
    IF ~Contains(string, SQRT) THEN string
    ELSE LET splits == Split(string, SQRT)
         IN  FixSqrtLoop(splits, 2, splits[1])

\* the entries of multi_char_replacements, in the order of the dict ('\\%' and
\* '\%' are one key)
multi_char_replacements ==
    << <<<<"\n">>, <<>>>>,
       <<<<BS, BS>>, <<BS>>>>,
       <<<<"t", "f", "r", "a", "c">>, <<"f", "r", "a", "c">>>>,
       <<<<"d", "f", "r", "a", "c">>, <<"f", "r", "a", "c">>>>,
       <<<<BS, "l", "e", "f", "t">>, <<>>>>,
       <<<<BS, "r", "i", "g", "h", "t">>, <<>>>>,
       <<<<"^", "{", BS, "c", "i", "r", "c", "}">>, <<>>>>,
       <<<<"^", BS, "c", "i", "r", "c">>, <<>>>>,
       <<<<BS, "$">>, <<>>>>,
       <<<<BS, "%">>, <<>>>>,
       <<<<" ", ".">>, <<" ", "0", ".">>>>,
       <<<<"{", ".">>, <<"{", "0", ".">>>>,
       <<<<BS, "!">>, <<>>>> >>

\* string.replace(old, new) for the pairs of the table from the k-th on, in
\* the order of the table; a pair whose old text does not occur leaves the
\* string as it is, so the loop goes on at the first pair whose old text does
RECURSIVE ApplyReplacements(_, _, _)
ApplyReplacements(string, table, k) ==
    LET occurring == {j \in k..Len(table) : Contains(string, table[j][1])}
    IN  IF occurring = {} THEN string
        ELSE LET j == CHOOSE m \in occurring : \A o \in occurring : m <= o
             IN  ApplyReplacements(Replace(string, table[j][1], table[j][2]),
                                   table, j + 1)

\* DropAssignment with the test of the length of the left part left out
DropAssignment_AnyLeft(string) ==
    LET parts == Split(string, <<"=">>)
    IN  IF Len(parts) = 2 THEN parts[2] ELSE string

\* "Get rid of e.g. 'k = ' or 'q = ' at beginning"
DropAssignment(string) ==
    LET parts == Split(string, <<"=">>)
    IN  IF Len(parts) = 2 /\ Len(parts[1]) <= 2 THEN parts[2] ELSE string

RemoveSpaces(string) == SelectSeq(string, LAMBDA c : c # " ")

\* HalfToFrac with the special case of lines 147-148 left out
HalfToFrac_Skipped(string) == string

HalfToFrac(string) == IF string = <<"0", ".", "5">> THEN FRAC_HALF ELSE string

\* the steps of _strip_string after the replacements; an exception of one step
\* leaves through all the later ones
StripTail(string) ==
    LET s1 == IF Len(string) > 0 /\ string[1] = "." THEN <<"0">> \o string ELSE string
        s2 == _remove_right_units(s1)
        s3 == IF s2 = Raise THEN Raise ELSE _fix_sqrt(DropAssignment(s2))
        s4 == IF s3 = Raise THEN Raise ELSE _fix_fracs(RemoveSpaces(s3))
    IN  IF s2 = Raise \/ s3 = Raise \/ s4 = Raise THEN Raise
        ELSE _fix_a_slash_b(HalfToFrac(s4))

_strip_string(string) ==
    IF Len(string) = 0 THEN string
    ELSE StripTail(ApplyReplacements(string, multi_char_replacements, 1))

\* normalize_answer without the try and except of lines 16-23
normalize_answer_NoExcept(answer) ==
    IF answer = None THEN None
    ELSE LET stripped == Strip(answer)
             inner == IF TextMatches(stripped) THEN Strip(TextGroup(stripped))
                      ELSE stripped
         IN  _strip_string(inner)

normalize_answer(answer) ==
    IF answer = None THEN None
    ELSE LET stripped == Strip(answer)
             inner == IF TextMatches(stripped) THEN Strip(TextGroup(stripped))
                      ELSE stripped
             out == _strip_string(inner)
         IN  IF out = Raise THEN inner ELSE out

(***************************************************************************)
(* evaluation.py: predicates on elements, the comma stripper, the          *)
(* extended normalizer.                                                    *)
(***************************************************************************)
BAD_SUBSTRINGS == << <<"^", "{">>, <<"^", "(">> >>

TUPLE_CHARS == {"(", ")", "[", "]"}

_is_float(num) == FloatOk(num)

\* inf and nan raise in int(round(x)), which the bare except turns into False
_is_int(num) ==
    /\ FloatFinite(num)
    /\ ~FloatOverflows(num)
    /\ NearInt(FloatVal(num))

\* the end of the subject for '$': the end, or the place before a final newline
AtEnd(s, i) == i > Len(s) \/ (i = Len(s) /\ s[i] = "\n")

\* -?[0-9]+.? matches all of p
FracHead(p) ==
    LET q == IF Len(p) > 0 /\ p[1] = "-" THEN Tail(p) ELSE p
    IN  \/ Len(q) >= 1 /\ AllDigits(q)
        \/ /\ Len(q) >= 2
           /\ AllDigits(SubSeq(q, 1, Len(q) - 1))
           /\ q[Len(q)] # "\n"

NonZeroDigits(d) == Len(d) >= 1 /\ AllDigits(d) /\ \E i \in 1..Len(d) : d[i] # "0"

\* 0*[1-9][0-9]*.?$ matches all of q
FracTail(q) ==
    LET r == IF Len(q) > 0 /\ q[Len(q)] = "\n" THEN SubSeq(q, 1, Len(q) - 1) ELSE q
    IN  \/ NonZeroDigits(q)
        \/ NonZeroDigits(r)
        \/ Len(q) >= 2 /\ NonZeroDigits(SubSeq(q, 1, Len(q) - 1)) /\ q[Len(q)] # "\n"
        \/ Len(r) >= 2 /\ NonZeroDigits(SubSeq(r, 1, Len(r) - 1)) /\ r[Len(r)] # "\n"

\* bool(re.search(r'^-?[0-9]+.?/0*[1-9][0-9]*.?$', expr))
_is_frac(expr) ==
    \E j \in 1..Len(expr) :
        /\ expr[j] = "/"
        /\ FracHead(SubSeq(expr, 1, j - 1))
        /\ FracTail(From(expr, j + 1))

\* one pass of p1.sub('\\1\\3\\4', expr), p1 = '(\d)(,)(\d\d\d)($|\D)', from i on
RECURSIVE CommaSubFrom(_, _)
CommaSubFrom(s, i) ==
    IF i > Len(s) THEN <<>>
    ELSE IF /\ i + 4 <= Len(s)
            /\ IsDigit(s[i])
            /\ s[i + 1] = ","
            /\ AllDigits(SubSeq(s, i + 2, i + 4))
            /\ (AtEnd(s, i + 5) \/ ~IsDigit(s[i + 5]))
         THEN IF AtEnd(s, i + 5)
              THEN <<s[i]>> \o SubSeq(s, i + 2, i + 4) \o CommaSubFrom(s, i + 5)
              ELSE <<s[i]>> \o SubSeq(s, i + 2, i + 5) \o CommaSubFrom(s, i + 6)
         ELSE <<s[i]>> \o CommaSubFrom(s, i + 1)

\* _strip_properly_formatted_commas with one substitution pass for the loop
StripCommasOnce(expr) == CommaSubFrom(expr, 1)

RECURSIVE _strip_properly_formatted_commas(_)
_strip_properly_formatted_commas(expr) ==
    LET next_expr == CommaSubFrom(expr, 1)
    IN  IF next_expr = expr THEN next_expr
        ELSE _strip_properly_formatted_commas(next_expr)

\* the number of times the body of the while loop of lines 221-225 runs
RECURSIVE StripPasses(_)
StripPasses(expr) ==
    LET next_expr == CommaSubFrom(expr, 1)
    IN  IF next_expr = expr THEN 1 ELSE 1 + StripPasses(next_expr)

_str_is_int(x) ==
    LET stripped == _strip_properly_formatted_commas(x)
    IN  Len(stripped) >= 0 /\ _is_int(stripped)

\* int(float(x.replace(',', '')))
_str_to_int(x) == TruncVal(FloatVal(Replace(x, <<",">>, <<>>)))

\* p1.sub('\\1+\\2', step), p1 = '([0-9]) +([0-9])', from i on
RECURSIVE SpacesEnd(_, _)
SpacesEnd(s, i) == IF i <= Len(s) /\ s[i] = " " THEN SpacesEnd(s, i + 1) ELSE i

RECURSIVE MixedFrom(_, _)
MixedFrom(s, i) ==
    IF i > Len(s) THEN <<>>
    ELSE LET e == SpacesEnd(s, i + 1)
         IN  IF IsDigit(s[i]) /\ e > i + 1 /\ e <= Len(s) /\ IsDigit(s[e])
             THEN <<s[i], "+", s[e]>> \o MixedFrom(s, e + 1)
             ELSE <<s[i]>> \o MixedFrom(s, i + 1)

_inject_implicit_mixed_number(step) == MixedFrom(step, 1)

RECURSIVE DigitsEnd(_, _)
DigitsEnd(s, i) == IF i <= Len(s) /\ IsDigit(s[i]) THEN DigitsEnd(s, i + 1) ELSE i

\* the end (exclusive) of a match of f'{unit}(es)?(s)? *(\^[0-9]+)?' that starts at i
UnitMatchEnd(s, i, unit) ==
    LET a == i + Len(unit)
        b == IF StartsWithAt(s, a, <<"e", "s">>) THEN a + 2 ELSE a
        c == IF StartsWithAt(s, b, <<"s">>) THEN b + 1 ELSE b
        d == SpacesEnd(s, c)
    IN  IF d <= Len(s) /\ s[d] = "^" /\ DigitsEnd(s, d + 1) > d + 1
        THEN DigitsEnd(s, d + 1)
        ELSE d

RECURSIVE UnitSubFrom(_, _, _)
UnitSubFrom(s, i, unit) ==
    IF i > Len(s) THEN <<>>
    ELSE IF StartsWithAt(s, i, unit)
         THEN UnitSubFrom(s, UnitMatchEnd(s, i, unit), unit)
         ELSE <<s[i]>> \o UnitSubFrom(s, i + 1, unit)

Units ==
    << <<"d", "e", "g", "r", "e", "e">>,
       <<"c", "m">>,
       <<"c", "e", "n", "t", "i", "m", "e", "t", "e", "r">>,
       <<"m", "e", "t", "e", "r">>,
       <<"m", "i", "l", "e">>,
       <<"s", "e", "c", "o", "n", "d">>,
       <<"m", "i", "n", "u", "t", "e">>,
       <<"h", "o", "u", "r">>,
       <<"d", "a", "y">>,
       <<"w", "e", "e", "k">>,
       <<"m", "o", "n", "t", "h">>,
       <<"y", "e", "a", "r">>,
       <<"f", "o", "o", "t">>,
       <<"f", "e", "e", "t">>,
       <<"i", "n", "c", "h">>,
       <<"y", "a", "r", "d">> >>

\* the re.sub of each unit from the k-th on, in the order of the list; the
\* pattern of a unit matches where the unit occurs, so a unit that does not
\* occur leaves the string as it is and the loop goes on at the first that does
RECURSIVE StripUnits(_, _)
StripUnits(expr, k) ==
    LET occurring == {j \in k..Len(Units) : Contains(expr, Units[j])}
    IN  IF occurring = {} THEN expr
        ELSE LET j == CHOOSE m \in occurring : \A o \in occurring : m <= o
             IN  StripUnits(UnitSubFrom(expr, 1, Units[j]), j + 1)

\* re.sub(pre + ' *' + post, rep, expr) for literal pre and post, from i on
RECURSIVE GapSubFrom(_, _, _, _, _)
GapSubFrom(s, i, pre, post, rep) ==
    IF i > Len(s) THEN <<>>
    ELSE LET e == SpacesEnd(s, i + Len(pre))
         IN  IF StartsWithAt(s, i, pre) /\ StartsWithAt(s, e, post)
             THEN rep \o GapSubFrom(s, e + Len(post), pre, post, rep)
             ELSE <<s[i]>> \o GapSubFrom(s, i + 1, pre, post, rep)

NormalizeReplacements ==
    << <<<<BS, "%">>, <<"%">>>>,
       <<<<BS, "$">>, <<"$">>>>,
       <<<<"$">>, <<>>>>,
       <<<<"%">>, <<>>>>,
       <<<<" ", "o", "r", " ">>, <<" ", ",", " ">>>>,
       <<<<" ", "a", "n", "d", " ">>, <<" ", ",", " ">>>>,
       <<<<"m", "i", "l", "l", "i", "o", "n">>, <<"*", "1", "0", "^", "6">>>>,
       <<<<"b", "i", "l", "l", "i", "o", "n">>, <<"*", "1", "0", "^", "9">>>>,
       <<<<"t", "r", "i", "l", "l", "i", "o", "n">>, <<"*", "1", "0", "^", "1", "2">>>> >>

StripBraces(expr) ==
    IF Len(expr) > 0 /\ expr[1] = "{" /\ expr[Len(expr)] = "}"
    THEN SubSeq(expr, 2, Len(expr) - 1)
    ELSE expr

\* FloatToInt with int(float(expr)) for int(round(float(expr)))
FloatToInt_Trunc(expr) ==
    IF _is_float(expr) /\ _is_int(expr)
    THEN IntToStr(TruncVal(FloatVal(expr)))
    ELSE expr

FloatToInt(expr) ==
    IF _is_float(expr) /\ _is_int(expr)
    THEN IntToStr(RoundVal(FloatVal(expr)))
    ELSE expr

\* _normalize, lines 244-286: up to the LaTeX fallback
NormalizeHead(expr) ==
    LET e1 == IF TextMatches(expr) THEN TextGroup(expr) ELSE expr
        e2 == StripUnits(ApplyReplacements(e1, NormalizeReplacements, 1), 1)
        e3 == GapSubFrom(e2, 1, <<"^">>, <<BS, "c", "i", "r", "c">>, <<>>)
        e4 == GapSubFrom(StripBraces(e3), 1, <<",", BS, "!">>, <<>>, <<>>)
    IN  \* each step is computed before the next is begun
        IF Len(e1) + Len(e2) + Len(e3) + Len(e4) >= 0 THEN FloatToInt(e4)
        ELSE e4

ParseLatexSigns ==
    << <<<<SQRT_SIGN>>, <<"s", "q", "r", "t">>>>,
       <<<<PI_SIGN>>, <<"p", "i">>>>,
       <<<<INF_SIGN>>, <<"i", "n", "f">>>>,
       <<<<CUP_SIGN>>, <<"U">>>>,
       <<<<CDOT_SIGN>>, <<"*">>>>,
       <<<<TIMES_SIGN>>, <<"*">>>> >>

\* what _parse_latex hands to latex_to_text
LatexInput(expr) ==
    LET a == Replace(expr, <<BS, "t", "f", "r", "a", "c">>, FRAC)
        b == Replace(a, <<BS, "d", "f", "r", "a", "c">>, FRAC)
    IN  Replace(b, FRAC, <<" ">> \o FRAC)

\* _parse_latex, given the text latex_to_text returned
_parse_latex(text) == Strip(ApplyReplacements(text, ParseLatexSigns, 1))

\* NormalizeTail with the removal of the spaces (line 297) left out
NormalizeTail_KeepSpaces(expr) ==
    LET e1 == GapSubFrom(expr, 1, <<"-">>, <<>>, <<"-">>)
        e2 == _inject_implicit_mixed_number(e1)
        e3 == Lower(Replace(Replace(e2, <<"{">>, <<>>), <<"}">>, <<>>))
    IN  IF Len(e1) + Len(e2) + Len(e3) >= 0 /\ _str_is_int(e3)
        THEN IntToStr(_str_to_int(e3))
        ELSE e3

\* NormalizeTail with the integer canonicalization of lines 306-307 left out
NormalizeTail_NoIntStep(expr) ==
    LET e1 == GapSubFrom(expr, 1, <<"-">>, <<>>, <<"-">>)
        e2 == Replace(_inject_implicit_mixed_number(e1), <<" ">>, <<>>)
    IN  IF Len(e1) + Len(e2) >= 0
        THEN Lower(Replace(Replace(e2, <<"{">>, <<>>), <<"}">>, <<>>))
        ELSE e2

\* _normalize, lines 293-309: after the LaTeX fallback
NormalizeTail(expr) ==
    LET e1 == GapSubFrom(expr, 1, <<"-">>, <<>>, <<"-">>)
        e2 == Replace(_inject_implicit_mixed_number(e1), <<" ">>, <<>>)
        e3 == Lower(Replace(Replace(e2, <<"{">>, <<>>), <<"}">>, <<>>))
    IN  IF Len(e1) + Len(e2) + Len(e3) >= 0 /\ _str_is_int(e3)
        THEN IntToStr(_str_to_int(e3))
        ELSE e3

UsesLatex(expr) == expr # None /\ Contains(NormalizeHead(expr), <<BS>>)

\* _normalize(expr); text is what latex_to_text does when it is called: the
\* string it returns, or Raise
_normalize(expr, text) ==
    IF expr = None THEN None
    ELSE LET head == NormalizeHead(expr)
         IN  IF Len(head) >= 0 /\ Contains(head, <<BS>>) /\ text # Raise
             THEN NormalizeTail(_parse_latex(text))
             ELSE NormalizeTail(head)

(***************************************************************************)
(* evaluation.py: the guard of the symbolic tier and the tuple splitter.   *)
(***************************************************************************)
count_unknown_letters_in_expr(expr) ==
    LET e == Replace(Replace(expr, <<"s", "q", "r", "t">>, <<>>),
                     <<"f", "r", "a", "c">>, <<>>)
    IN  Cardinality({e[i] : i \in {j \in 1..Len(e) : IsAlpha(e[j])}})

\* re.search('\^[0-9]+\^', expr) is not None
CaretDigitsCaret(expr) ==
    \E i \in 1..Len(expr) :
        /\ expr[i] = "^"
        /\ DigitsEnd(expr, i + 1) > i + 1
        /\ DigitsEnd(expr, i + 1) <= Len(expr)
        /\ expr[DigitsEnd(expr, i + 1)] = "^"

\* re.search('\^[0-9][0-9]+', expr) is not None
CaretTwoDigits(expr) ==
    \E i \in 1..Len(expr) : expr[i] = "^" /\ DigitsEnd(expr, i + 1) >= i + 3

\* should_allow_eval with the count of the letters (lines 347-348) left out
should_allow_eval_NoLetterCount(expr) ==
    /\ \A k \in 1..Len(BAD_SUBSTRINGS) : ~Contains(expr, BAD_SUBSTRINGS[k])
    /\ ~CaretDigitsCaret(expr)
    /\ ~CaretTwoDigits(expr)

\* should_allow_eval with the second of BAD_REGEXES left out
should_allow_eval_OneRegex(expr) ==
    /\ count_unknown_letters_in_expr(expr) <= 2
    /\ \A k \in 1..Len(BAD_SUBSTRINGS) : ~Contains(expr, BAD_SUBSTRINGS[k])
    /\ ~CaretDigitsCaret(expr)

should_allow_eval(expr) ==
    /\ count_unknown_letters_in_expr(expr) <= 2
    /\ \A k \in 1..Len(BAD_SUBSTRINGS) : ~Contains(expr, BAD_SUBSTRINGS[k])
    /\ ~CaretDigitsCaret(expr)
    /\ ~CaretTwoDigits(expr)

\* f'({ground_truth_normalized})-({given_normalized})'
DiffExpr(ground_truth_normalized, given_normalized) ==
    <<"(">> \o ground_truth_normalized \o <<")", "-", "(">> \o given_normalized \o <<")">>

\* what _sympy_parse and sympy.simplify can do with an expression they are given:
\* simplify it to zero, simplify it to something else, or raise
SympyOutcomes == {"zero", "nonzero", "raise"}

\* are_equal_under_sympy with the test `simplified == 0` of line 385 left out
are_equal_under_sympy_NoZeroTest(ground_truth_normalized, given_normalized, sympy) ==
    /\ should_allow_eval(DiffExpr(ground_truth_normalized, given_normalized))
    /\ sympy # "raise"

\* are_equal_under_sympy, given what sympy does if it is called
are_equal_under_sympy(ground_truth_normalized, given_normalized, sympy) ==
    /\ should_allow_eval(DiffExpr(ground_truth_normalized, given_normalized))
    /\ sympy = "zero"

\* split_tuple with elem.strip() of line 415 left out
split_tuple_NoStrip(expr0) ==
    LET expr == _strip_properly_formatted_commas(expr0)
    IN  IF Len(expr) = 0 THEN <<>>
        ELSE IF /\ Len(expr) > 2
                /\ expr[1] \in TUPLE_CHARS
                /\ expr[Len(expr)] \in TUPLE_CHARS
                /\ \A i \in 2..(Len(expr) - 1) : expr[i] \notin TUPLE_CHARS
             THEN Split(SubSeq(expr, 2, Len(expr) - 1), <<",">>)
             ELSE <<expr>>

split_tuple(expr0) ==
    LET expr == _strip_properly_formatted_commas(expr0)
    IN  IF Len(expr) = 0 THEN <<>>
        ELSE IF /\ Len(expr) > 2
                /\ expr[1] \in TUPLE_CHARS
                /\ expr[Len(expr)] \in TUPLE_CHARS
                /\ \A i \in 2..(Len(expr) - 1) : expr[i] \notin TUPLE_CHARS
             THEN LET parts == Split(SubSeq(expr, 2, Len(expr) - 1), <<",">>)
                  IN  [k \in 1..Len(parts) |-> Strip(parts[k])]
             ELSE <<expr>>

(***************************************************************************)
(* run_experiment.py: the answer of a response, between its markers.       *)
(***************************************************************************)
ANSWER_OPEN == <<"<", "a", "n", "s", "w", "e", "r", ">">>

ANSWER_CLOSE == <<"<", "/", "a", "n", "s", "w", "e", "r", ">">>

\* s.find(p): the 0-based index of the first occurrence, or -1
Find(s, p) ==
    IF Contains(s, p)
    THEN (CHOOSE i \in 1..Len(s) :
             /\ StartsWithAt(s, i, p)
             /\ \A j \in 1..(i - 1) : ~StartsWithAt(s, j, p)) - 1
    ELSE -1

\* extract_answer testing start_idx only: the slice then ends at index -1
extract_answer_NoCloseTest(text) ==
    LET start_idx == Find(text, ANSWER_OPEN)
        end_idx == Find(text, ANSWER_CLOSE)
    IN  IF start_idx = -1 THEN <<>>
        ELSE IF end_idx = -1
             THEN SubSeq(text, start_idx + Len(ANSWER_OPEN) + 1, Len(text) - 1)
             ELSE SubSeq(text, start_idx + Len(ANSWER_OPEN) + 1, end_idx)

extract_answer(text) ==
    LET start_idx == Find(text, ANSWER_OPEN)
        end_idx == Find(text, ANSWER_CLOSE)
    IN  IF start_idx = -1 \/ end_idx = -1 THEN <<>>
        ELSE SubSeq(text, start_idx + Len(ANSWER_OPEN) + 1, end_idx)

(***************************************************************************)
(* The answers one call of grade_answer is given: every string of at most  *)
(* MaxLen characters of Alphabet, the strings of Corpus, and None.         *)
(***************************************************************************)
MaxLen == 2

Alphabet == {"1", "0", ".", " "}

RECURSIVE Words(_)
Words(n) ==
    IF n = 0 THEN {<<>>}
    ELSE Words(n - 1) \cup {Append(w, c) : w \in Words(n - 1), c \in Alphabet}

Corpus ==
    { <<"5">>,
      <<"3">>,
      <<"3", ".", "0">>,
      <<"3", ".", "5">>,
      <<"1", "/", "2">>,
      <<"2", "/", "4">>,
      <<"0", ".", "5">>,
      <<BS, "f", "r", "a", "c", "{", "1", "}", "{", "2", "}">>,
      <<"1", ",", "0", "0", "0">>,
      <<"1", "0", "0", "0">>,
      <<"(", "1", ",", " ", "2", ")">>,
      <<"(", "1", ",", "2", ")">>,
      <<"(", "1", ",", "2", ",", "3", ")">>,
      <<"x", "+", "1">>,
      <<"1", "+", "x">>,
      <<"x", "=", "(", "1", ",", "2", ")">>,
      <<"(", " ", "o", "r", " ", ",", " ", ".", "5", ")">>,
      <<"(", "o", "r", ",", ".", "5", ")">>,
      <<"(", "1", "/", "2", ",", "3", ")">>,
      <<"(", "2", "/", "4", ",", "3", ")">>,
      <<"2", ".", "9", "9", "9", "9", "9", "9", "9", "9">>,
      <<"(", "3", ".", "5", ",", "x", ")">>,
      <<"(", "3", ",", "x", ")">>,
      <<"a", "b", "c">>,
      <<"X">>,
      <<BS, "s", "q", "r", "t", "2">>,
      <<BS, "t", "e", "x", "t", "{", "a", "b", "}">>,
      <<"5", " ", "c", "m">>,
      <<"x", "^", "1", "0">>,
      <<"(", "1", ")">>,
      <<"1", ",", "0", "0", "0", ",", "0", "0", "0">>,
      <<"1", "0", "0", "0", "0", "0", "0">>,
      <<"(", "1", ",", " ", ".", "5", ")">>,
      <<"(", "1", ",", ".", "5", ")">>,
      <<"(", "1", "/", "2", ",", "x", ")">>,
      <<"2">>,
      <<"1", ".", "0", "0", "0", "0", "0", "0", "1">>,
      <<"2", ".", "0", "0", "0", "0", "0", "0", "1">>,
      <<"0", ".", "9", "9", "9", "9", "9", "9", "9">>,
      <<"(", " ", ".", "5", ",", "1", " ", ")">>,
      <<"(", ".", "5", ",", "1", ")">>,
      <<"[", "1", " ", ",", " ", "2", "]">>,
      <<"[", "1", ",", "2", "]">>,
      <<"1", "e", "3", "0", "9">>,
      <<"1", "/", "1">>,
      <<"0", "/", "1">>,
      <<"1", "/", "0">>,
      <<"c", " ", "m">>,
      <<"1", " ", ".">>,
      <<"[", "1", ",", "2", ")">>,
      <<BS, "f", "r", "a", "c">>,
      <<"x", "^", "(", "2", ")">>,
      <<"(", "1", ",", "\t", "2", ")">>,
      <<"(", "1", ",", "(", "2", ")", ")">>,
      <<"(", ")">>,
      <<"(", "1", ",", "0", "0", "0", ",", "2", ")">>,
      <<"1", " ", BS, "t", "e", "x", "t", "{", " ", "a", "}",
        BS, "t", "e", "x", "t", "{", " ", "b", "}">>,
      <<"1", " ", BS, "t", "e", "x", "t", "{", " ", "a", "}">>,
      <<BS, "f", "r", "a", "c", "a", "b">>,
      <<BS, "f", "r", "a", "c", "a", "{", "b", "}">>,
      <<BS, "f", "r", "a", "c", "{", "a", "}", "b">>,
      <<BS, "f", "r", "a", "c", "{", "a", "}", "{", "b", "}">> }

Answers == Words(MaxLen) \cup Corpus \cup {None}

\* the answers the responses of the rows hold between their markers
RowAnswers ==
    { <<>>,
      <<"5">>,
      <<" ", "5">>,
      <<"1", "/", "2">>,
      <<"(", "1", ",", "2", ")">>,
      <<"(", "1", ",", "3", ")">>,
      <<"x", "+", "1">> }

\* the text of a response around the markers
RowTexts == { <<>>, <<"s", "o", " ">> }

\* the response texts of the rows: an answer between the two markers, with or
\* without text around them; the answer without markers, with one of the two,
\* with a marker that lacks its last character, with the two in reverse order
Responses ==
    {t \o ANSWER_OPEN \o a \o ANSWER_CLOSE \o t : a \in RowAnswers, t \in RowTexts}
        \cup RowAnswers
        \cup {ANSWER_OPEN \o a \o t : a \in RowAnswers, t \in RowTexts}
        \cup {a \o ANSWER_CLOSE : a \in RowAnswers}
        \cup {SubSeq(ANSWER_OPEN, 1, 7) \o a \o ANSWER_CLOSE : a \in RowAnswers}
        \cup {ANSWER_CLOSE \o a \o ANSWER_OPEN : a \in RowAnswers}

\* what latex_to_text (pylatexenc) can do with the text it is given: raise, or
\* return one of these texts
LatexTexts ==
    { <<" ", "1", "/", "2">>,
      <<SQRT_SIGN, "(", "2", ")">>,
      <<"a", "b">> }

LatexOutcomes(expr) == IF UsesLatex(expr) THEN LatexTexts \cup {Raise} ELSE {Raise}

(***************************************************************************)
(* One call grade_answer(given_answer, ground_truth), statement by         *)
(* statement.                                                              *)
(***************************************************************************)
Unset == <<"<unset>">>

VARIABLES
    given_answer,                   \* the arguments
    ground_truth,
    pc,                             \* the statement the call is at
    ground_truth_normalized_mathd,  \* the locals, Unset until assigned
    given_answer_normalized_mathd,
    ground_truth_normalized,
    given_normalized,
    ground_truth_elems,
    given_elems,
    idx,                            \* the pair the for loop is at
    is_correct,                     \* "unbound", "True" or "False"
    sympy_calls,                    \* the pairs handed to the parser, with what it did
    result,                         \* "none", then "True", "False" or "raise"
    response_text,                  \* the row of grade_responses the call is made for:
    correct,                        \*   its response text and its column 'correct'
    suspended,                      \* the frame of a second call, in a thread that waits
    running,                        \* the thread the frame above belongs to
    components,                     \* get_all_combinations: its argument,
    gen_pc,                         \*   where the generator stands,
    ablation_size,                  \*   the i of its outer loop,
    combo,                          \*   the places of the pool the inner loop is at,
    yielded,                        \*   and the lists it has yielded so far
    provider,                       \* make_batch_request: self.provider,
    data_dir,                       \*   its argument data_dir,
    batch_pc,                       \*   the statement it is at,
    batch_id,                       \*   the id of the batch it created,
    processing_status,              \*   the status of the batch at the provider,
    batch,                          \*   the status the last retrieve call reported,
    polls,                          \*   the retrieve calls that did not report 'ended',
    response_path,                  \*   the path of the file of the results,
    files,                          \*   the files written,
    batch_return                    \*   and what the call returned or raised

vars ==
    <<given_answer, ground_truth, pc, ground_truth_normalized_mathd,
      given_answer_normalized_mathd, ground_truth_normalized, given_normalized,
      ground_truth_elems, given_elems, idx, is_correct, sympy_calls, result,
      response_text, correct, suspended, running,
      components, gen_pc, ablation_size, combo, yielded,
      provider, data_dir, batch_pc, batch_id, processing_status, batch,
      polls, response_path, files, batch_return>>

\* what is not a local of the call and no step of grade_answer touches
caller_vars == <<response_text, correct, suspended, running>>

\* the state of get_all_combinations and of make_batch_request
template_vars == <<components, gen_pc, ablation_size, combo, yielded>>

batch_vars ==
    <<provider, data_dir, batch_pc, batch_id, processing_status, batch,
      polls, response_path, files, batch_return>>

\* get_all_combinations and make_batch_request have not been called
NotCalled ==
    /\ components = Unset
    /\ gen_pc = "idle"
    /\ ablation_size = 0
    /\ combo = Unset
    /\ yielded = Unset
    /\ provider = Unset
    /\ data_dir = Unset
    /\ batch_pc = "idle"
    /\ batch_id = Unset
    /\ processing_status = Unset
    /\ batch = Unset
    /\ polls = 0
    /\ response_path = Unset
    /\ files = Unset
    /\ batch_return = Unset

Init ==
    /\ given_answer \in Answers
    /\ ground_truth \in Answers
    /\ pc = "start"
    /\ ground_truth_normalized_mathd = Unset
    /\ given_answer_normalized_mathd = Unset
    /\ ground_truth_normalized = Unset
    /\ given_normalized = Unset
    /\ ground_truth_elems = Unset
    /\ given_elems = Unset
    /\ idx = 0
    /\ is_correct = "unbound"
    /\ sympy_calls = <<>>
    /\ result = "none"
    /\ response_text = Unset
    /\ correct = Unset
    /\ suspended = Unset
    /\ running = 1
    /\ NotCalled

PyBool(b) == IF b THEN "True" ELSE "False"

\* return b
ReturnNow(b) == pc' = "done" /\ result' = PyBool(b)

\* CheckGiven with the test for the empty string left out
CheckGiven_NoneOnly ==
    /\ pc = "start"
    /\ IF given_answer = None
       THEN ReturnNow(FALSE)
       ELSE pc' = "baseline" /\ UNCHANGED result
    /\ UNCHANGED <<given_answer, ground_truth, ground_truth_normalized_mathd,
                   given_answer_normalized_mathd, ground_truth_normalized,
                   given_normalized, ground_truth_elems, given_elems, idx,
                   is_correct, sympy_calls>>
    /\ UNCHANGED <<caller_vars, template_vars, batch_vars>>

\* lines 441-442
CheckGiven ==
    /\ pc = "start"
    /\ IF given_answer = None \/ given_answer = <<>>
       THEN ReturnNow(FALSE)
       ELSE pc' = "baseline" /\ UNCHANGED result
    /\ UNCHANGED <<given_answer, ground_truth, ground_truth_normalized_mathd,
                   given_answer_normalized_mathd, ground_truth_normalized,
                   given_normalized, ground_truth_elems, given_elems, idx,
                   is_correct, sympy_calls>>
    /\ UNCHANGED <<caller_vars, template_vars, batch_vars>>

\* BaselineTier with the early return of line 453 left out
BaselineTier_NoReturn ==
    /\ pc = "baseline"
    /\ ground_truth_normalized_mathd' = normalize_answer(ground_truth)
    /\ given_answer_normalized_mathd' = normalize_answer(given_answer)
    /\ pc' = "extended"
    /\ UNCHANGED <<given_answer, ground_truth, ground_truth_normalized,
                   given_normalized, ground_truth_elems, given_elems, idx,
                   is_correct, sympy_calls, result>>
    /\ UNCHANGED <<caller_vars, template_vars, batch_vars>>

\* lines 444-453
BaselineTier ==
    /\ pc = "baseline"
    /\ ground_truth_normalized_mathd' = normalize_answer(ground_truth)
    /\ given_answer_normalized_mathd' = normalize_answer(given_answer)
    /\ IF ground_truth_normalized_mathd' = given_answer_normalized_mathd'
       THEN ReturnNow(TRUE)
       ELSE pc' = "extended" /\ UNCHANGED result
    /\ UNCHANGED <<given_answer, ground_truth, ground_truth_normalized,
                   given_normalized, ground_truth_elems, given_elems, idx,
                   is_correct, sympy_calls>>
    /\ UNCHANGED <<caller_vars, template_vars, batch_vars>>

\* ExtendedTier with the test of line 464 for an empty given form left out
ExtendedTier_NoEmptyTest ==
    /\ pc = "extended"
    /\ \E text_truth \in LatexOutcomes(ground_truth),
          text_given \in LatexOutcomes(given_answer) :
          /\ ground_truth_normalized' = _normalize(ground_truth, text_truth)
          /\ given_normalized' = _normalize(given_answer, text_given)
    /\ IF ground_truth_normalized' = None THEN ReturnNow(FALSE)
       ELSE IF ground_truth_normalized' = given_normalized' THEN ReturnNow(TRUE)
       ELSE pc' = "split" /\ UNCHANGED result
    /\ UNCHANGED <<given_answer, ground_truth, ground_truth_normalized_mathd,
                   given_answer_normalized_mathd, ground_truth_elems, given_elems,
                   idx, is_correct, sympy_calls>>
    /\ UNCHANGED <<caller_vars, template_vars, batch_vars>>

\* lines 455-465; latex_to_text answers the same text the same way
ExtendedTier ==
    /\ pc = "extended"
    /\ \E text_truth \in LatexOutcomes(ground_truth),
          text_given \in LatexOutcomes(given_answer) :
          /\ (/\ UsesLatex(ground_truth)
              /\ UsesLatex(given_answer)
              /\ LatexInput(NormalizeHead(ground_truth))
                    = LatexInput(NormalizeHead(given_answer)))
                => text_truth = text_given
          /\ ground_truth_normalized' = _normalize(ground_truth, text_truth)
          /\ given_normalized' = _normalize(given_answer, text_given)
    /\ IF ground_truth_normalized' = None THEN ReturnNow(FALSE)
       ELSE IF ground_truth_normalized' = given_normalized' THEN ReturnNow(TRUE)
       ELSE IF Len(given_normalized') = 0 THEN ReturnNow(FALSE)
       ELSE pc' = "split" /\ UNCHANGED result
    /\ UNCHANGED <<given_answer, ground_truth, ground_truth_normalized_mathd,
                   given_answer_normalized_mathd, ground_truth_elems, given_elems,
                   idx, is_correct, sympy_calls>>
    /\ UNCHANGED <<caller_vars, template_vars, batch_vars>>

\* SplitTier with the comparison of the element counts (lines 475-476) left out
SplitTier_NoCount ==
    /\ pc = "split"
    /\ ground_truth_elems' = split_tuple(ground_truth_normalized)
    /\ given_elems' = split_tuple(given_normalized)
    /\ IF /\ Len(ground_truth_elems') > 1
          /\ \/ ground_truth_normalized[1] # given_normalized[1]
             \/ ground_truth_normalized[Len(ground_truth_normalized)]
                   # given_normalized[Len(given_normalized)]
       THEN is_correct' = "False" /\ pc' = "return" /\ UNCHANGED <<idx, result>>
       ELSE pc' = "loop" /\ idx' = 1 /\ UNCHANGED <<is_correct, result>>
    /\ UNCHANGED <<given_answer, ground_truth, ground_truth_normalized_mathd,
                   given_answer_normalized_mathd, ground_truth_normalized,
                   given_normalized, sympy_calls>>
    /\ UNCHANGED <<caller_vars, template_vars, batch_vars>>

\* SplitTier with the comparison of the first and last characters (lines
\* 470-474) left out
SplitTier_NoShape ==
    /\ pc = "split"
    /\ ground_truth_elems' = split_tuple(ground_truth_normalized)
    /\ given_elems' = split_tuple(given_normalized)
    /\ IF Len(ground_truth_elems') # Len(given_elems')
       THEN is_correct' = "False" /\ pc' = "return" /\ UNCHANGED <<idx, result>>
       ELSE pc' = "loop" /\ idx' = 1 /\ UNCHANGED <<is_correct, result>>
    /\ UNCHANGED <<given_answer, ground_truth, ground_truth_normalized_mathd,
                   given_answer_normalized_mathd, ground_truth_normalized,
                   given_normalized, sympy_calls>>
    /\ UNCHANGED <<caller_vars, template_vars, batch_vars>>

\* lines 467-476, and the entry of the for loop of line 478
SplitTier ==
    /\ pc = "split"
    /\ ground_truth_elems' = split_tuple(ground_truth_normalized)
    /\ given_elems' = split_tuple(given_normalized)
    /\ IF Len(ground_truth_elems') > 1 /\ Len(given_normalized) = 0
       THEN \* given_normalized[0] is an IndexError
            /\ pc' = "done" /\ result' = "raise"
            /\ UNCHANGED <<is_correct, idx>>
       ELSE IF /\ Len(ground_truth_elems') > 1
               /\ \/ ground_truth_normalized[1] # given_normalized[1]
                  \/ ground_truth_normalized[Len(ground_truth_normalized)]
                        # given_normalized[Len(given_normalized)]
       THEN is_correct' = "False" /\ pc' = "return" /\ UNCHANGED <<idx, result>>
       ELSE IF Len(ground_truth_elems') # Len(given_elems')
       THEN is_correct' = "False" /\ pc' = "return" /\ UNCHANGED <<idx, result>>
       ELSE pc' = "loop" /\ idx' = 1 /\ UNCHANGED <<is_correct, result>>
    /\ UNCHANGED <<given_answer, ground_truth, ground_truth_normalized_mathd,
                   given_answer_normalized_mathd, ground_truth_normalized,
                   given_normalized, sympy_calls>>
    /\ UNCHANGED <<caller_vars, template_vars, batch_vars>>

\* the number of pairs zip(ground_truth_elems, given_elems) yields
ZipLen ==
    IF Len(ground_truth_elems) <= Len(given_elems)
    THEN Len(ground_truth_elems)
    ELSE Len(given_elems)

\* the outcomes sympy can have on a pair: what it did the last time it was
\* given the same pair, if there was one
SympyFor(ground_truth_elem, given_elem) ==
    IF \E k \in 1..Len(sympy_calls) :
          sympy_calls[k].pair = <<ground_truth_elem, given_elem>>
    THEN {sympy_calls[k].outcome : k \in {j \in 1..Len(sympy_calls) :
              sympy_calls[j].pair = <<ground_truth_elem, given_elem>>}}
    ELSE SympyOutcomes

\* PairBranch with the fraction branch of lines 481-484 left out
PairBranch_NoFrac(ground_truth_elem, given_elem) ==
    IF _str_is_int(ground_truth_elem) # _str_is_int(given_elem) THEN "int"
    ELSE "sympy"

\* PairBranch with the integer branch of lines 485-487 left out
PairBranch_NoInt(ground_truth_elem, given_elem) ==
    IF _is_frac(ground_truth_elem) /\ _is_frac(given_elem) THEN "frac"
    ELSE "sympy"

\* which of the three branches of lines 481-491 a pair takes
PairBranch(ground_truth_elem, given_elem) ==
    IF _is_frac(ground_truth_elem) /\ _is_frac(given_elem) THEN "frac"
    ELSE IF _str_is_int(ground_truth_elem) # _str_is_int(given_elem) THEN "int"
    ELSE "sympy"

\* the is_correct a pair is given, lines 481-491
PairVerdict(ground_truth_elem, given_elem, sympy) ==
    CASE PairBranch(ground_truth_elem, given_elem) = "frac" ->
            ground_truth_elem = given_elem
      [] PairBranch(ground_truth_elem, given_elem) = "int" -> FALSE
      [] OTHER -> are_equal_under_sympy(ground_truth_elem, given_elem, sympy)

\* _sympy_parse is reached for the pair, lines 382-383
ParserCalled(ground_truth_elem, given_elem) ==
    /\ PairBranch(ground_truth_elem, given_elem) = "sympy"
    /\ should_allow_eval(DiffExpr(ground_truth_elem, given_elem))

\* ComparePair with the break of lines 492-493 left out
ComparePair_NoBreak ==
    /\ pc = "loop"
    /\ idx <= ZipLen
    /\ \E sympy \in SympyFor(ground_truth_elems[idx], given_elems[idx]) :
          /\ is_correct' =
                PyBool(PairVerdict(ground_truth_elems[idx], given_elems[idx], sympy))
          /\ sympy_calls' =
                IF ParserCalled(ground_truth_elems[idx], given_elems[idx])
                THEN Append(sympy_calls,
                            [pair |-> <<ground_truth_elems[idx], given_elems[idx]>>,
                             outcome |-> sympy])
                ELSE sympy_calls
    /\ pc' = "loop"
    /\ idx' = idx + 1
    /\ UNCHANGED <<given_answer, ground_truth, ground_truth_normalized_mathd,
                   given_answer_normalized_mathd, ground_truth_normalized,
                   given_normalized, ground_truth_elems, given_elems, result>>
    /\ UNCHANGED <<caller_vars, template_vars, batch_vars>>

\* one turn of the for loop, lines 478-493
ComparePair ==
    /\ pc = "loop"
    /\ idx <= ZipLen
    /\ \E sympy \in SympyFor(ground_truth_elems[idx], given_elems[idx]) :
          /\ is_correct' =
                PyBool(PairVerdict(ground_truth_elems[idx], given_elems[idx], sympy))
          /\ sympy_calls' =
                IF ParserCalled(ground_truth_elems[idx], given_elems[idx])
                THEN Append(sympy_calls,
                            [pair |-> <<ground_truth_elems[idx], given_elems[idx]>>,
                             outcome |-> sympy])
                ELSE sympy_calls
    /\ pc' = IF is_correct' = "False" THEN "return" ELSE "loop"
    /\ idx' = IF is_correct' = "False" THEN idx ELSE idx + 1
    /\ UNCHANGED <<given_answer, ground_truth, ground_truth_normalized_mathd,
                   given_answer_normalized_mathd, ground_truth_normalized,
                   given_normalized, ground_truth_elems, given_elems, result>>
    /\ UNCHANGED <<caller_vars, template_vars, batch_vars>>

\* the for loop has no pair left
LoopEnd ==
    /\ pc = "loop"
    /\ idx > ZipLen
    /\ pc' = "return"
    /\ UNCHANGED <<given_answer, ground_truth, ground_truth_normalized_mathd,
                   given_answer_normalized_mathd, ground_truth_normalized,
                   given_normalized, ground_truth_elems, given_elems, idx,
                   is_correct, sympy_calls, result>>
    /\ UNCHANGED <<caller_vars, template_vars, batch_vars>>

\* line 495: return is_correct, an UnboundLocalError if it was never assigned
ReturnVerdict ==
    /\ pc = "return"
    /\ pc' = "done"
    /\ result' = IF is_correct = "unbound" THEN "raise" ELSE is_correct
    /\ UNCHANGED <<given_answer, ground_truth, ground_truth_normalized_mathd,
                   given_answer_normalized_mathd, ground_truth_normalized,
                   given_normalized, ground_truth_elems, given_elems, idx,
                   is_correct, sympy_calls>>
    /\ UNCHANGED <<caller_vars, template_vars, batch_vars>>

Next ==
    \/ CheckGiven
    \/ BaselineTier
    \/ ExtendedTier
    \/ SplitTier
    \/ ComparePair
    \/ LoopEnd
    \/ ReturnVerdict

Spec == Init /\ [][Next]_vars

(***************************************************************************)
(* One row of the responses, from its response text to its column          *)
(* 'correct': clean_responses extracts the answer, grade_responses grades  *)
(* it against the answer of the test set.                                  *)
(***************************************************************************)
InitRows ==
    /\ response_text \in Responses
    /\ ground_truth \in Answers
    /\ given_answer = Unset
    /\ pc = "extract"
    /\ ground_truth_normalized_mathd = Unset
    /\ given_answer_normalized_mathd = Unset
    /\ ground_truth_normalized = Unset
    /\ given_normalized = Unset
    /\ ground_truth_elems = Unset
    /\ given_elems = Unset
    /\ idx = 0
    /\ is_correct = "unbound"
    /\ sympy_calls = <<>>
    /\ result = "none"
    /\ correct = Unset
    /\ suspended = Unset
    /\ running = 1
    /\ NotCalled

\* clean_responses, lines 192-194: the column 'response_answer'
ExtractAnswer ==
    /\ pc = "extract"
    /\ given_answer' = extract_answer(response_text)
    /\ pc' = "start"
    /\ UNCHANGED <<ground_truth, ground_truth_normalized_mathd,
                   given_answer_normalized_mathd, ground_truth_normalized,
                   given_normalized, ground_truth_elems, given_elems, idx,
                   is_correct, sympy_calls, result>>
    /\ UNCHANGED <<caller_vars, template_vars, batch_vars>>

\* grade_responses, lines 248-253: the verdict of the call, astype(int)
StoreCorrect ==
    /\ pc = "done"
    /\ result \in {"True", "False"}
    /\ correct' = IF result = "True" THEN 1 ELSE 0
    /\ pc' = "graded"
    /\ UNCHANGED <<given_answer, ground_truth, ground_truth_normalized_mathd,
                   given_answer_normalized_mathd, ground_truth_normalized,
                   given_normalized, ground_truth_elems, given_elems, idx,
                   is_correct, sympy_calls, result, response_text, suspended,
                   running>>
    /\ UNCHANGED <<template_vars, batch_vars>>

NextRows ==
    \/ ExtractAnswer
    \/ CheckGiven
    \/ BaselineTier
    \/ ExtendedTier
    \/ SplitTier
    \/ ComparePair
    \/ LoopEnd
    \/ ReturnVerdict
    \/ StoreCorrect

SpecRows == InitRows /\ [][NextRows]_vars

(***************************************************************************)
(* Two calls of grade_answer in two threads.  Every name grade_answer      *)
(* assigns is a local of the call (evaluation.py has no global statement   *)
(* and its module-level names, lines 26-28, are only read), so each thread *)
(* has a frame of its own: the variables above hold the frame of the       *)
(* thread that runs, 'suspended' the frame of the thread that waits, and a *)
(* switch of threads can come between any two statements.  The parser      *)
(* answers the same pair the same way whichever call hands it over.        *)
(***************************************************************************)
\* the answers the two calls are given; none of them is LaTeX
ThreadAnswers ==
    { <<>>,
      <<"x", "+", "1">>,
      <<"1", "+", "x">>,
      <<"(", "1", ",", "2", ")">>,
      <<"(", "1", ",", "3", ")">> }

\* the frame of a call that has not started
StartFrame(given, truth) ==
    [given_answer |-> given,
     ground_truth |-> truth,
     pc |-> "start",
     ground_truth_normalized_mathd |-> Unset,
     given_answer_normalized_mathd |-> Unset,
     ground_truth_normalized |-> Unset,
     given_normalized |-> Unset,
     ground_truth_elems |-> Unset,
     given_elems |-> Unset,
     idx |-> 0,
     is_correct |-> "unbound",
     result |-> "none"]

\* the frame of the call that runs
Frame ==
    [given_answer |-> given_answer,
     ground_truth |-> ground_truth,
     pc |-> pc,
     ground_truth_normalized_mathd |-> ground_truth_normalized_mathd,
     given_answer_normalized_mathd |-> given_answer_normalized_mathd,
     ground_truth_normalized |-> ground_truth_normalized,
     given_normalized |-> given_normalized,
     ground_truth_elems |-> ground_truth_elems,
     given_elems |-> given_elems,
     idx |-> idx,
     is_correct |-> is_correct,
     result |-> result]

InitThreads ==
    /\ given_answer \in ThreadAnswers
    /\ ground_truth \in ThreadAnswers
    /\ pc = "start"
    /\ ground_truth_normalized_mathd = Unset
    /\ given_answer_normalized_mathd = Unset
    /\ ground_truth_normalized = Unset
    /\ given_normalized = Unset
    /\ ground_truth_elems = Unset
    /\ given_elems = Unset
    /\ idx = 0
    /\ is_correct = "unbound"
    /\ sympy_calls = <<>>
    /\ result = "none"
    /\ response_text = Unset
    /\ correct = Unset
    /\ suspended \in {StartFrame(given, truth) :
                          given \in ThreadAnswers, truth \in ThreadAnswers}
    /\ running = 1
    /\ NotCalled

\* Switch with is_correct a name of the module that the two calls share
Switch_SharedVerdict ==
    /\ suspended.pc # "done"
    /\ suspended' = Frame
    /\ given_answer' = suspended.given_answer
    /\ ground_truth' = suspended.ground_truth
    /\ pc' = suspended.pc
    /\ ground_truth_normalized_mathd' = suspended.ground_truth_normalized_mathd
    /\ given_answer_normalized_mathd' = suspended.given_answer_normalized_mathd
    /\ ground_truth_normalized' = suspended.ground_truth_normalized
    /\ given_normalized' = suspended.given_normalized
    /\ ground_truth_elems' = suspended.ground_truth_elems
    /\ given_elems' = suspended.given_elems
    /\ idx' = suspended.idx
    /\ result' = suspended.result
    /\ running' = 3 - running
    /\ UNCHANGED <<is_correct, sympy_calls, response_text, correct>>
    /\ UNCHANGED <<template_vars, batch_vars>>

\* the interpreter hands the processor to the thread that waits, unless its
\* call has returned
Switch ==
    /\ suspended.pc # "done"
    /\ suspended' = Frame
    /\ given_answer' = suspended.given_answer
    /\ ground_truth' = suspended.ground_truth
    /\ pc' = suspended.pc
    /\ ground_truth_normalized_mathd' = suspended.ground_truth_normalized_mathd
    /\ given_answer_normalized_mathd' = suspended.given_answer_normalized_mathd
    /\ ground_truth_normalized' = suspended.ground_truth_normalized
    /\ given_normalized' = suspended.given_normalized
    /\ ground_truth_elems' = suspended.ground_truth_elems
    /\ given_elems' = suspended.given_elems
    /\ idx' = suspended.idx
    /\ is_correct' = suspended.is_correct
    /\ result' = suspended.result
    /\ running' = 3 - running
    /\ UNCHANGED <<sympy_calls, response_text, correct>>
    /\ UNCHANGED <<template_vars, batch_vars>>

NextThreads ==
    \/ CheckGiven
    \/ BaselineTier
    \/ ExtendedTier
    \/ SplitTier
    \/ ComparePair
    \/ LoopEnd
    \/ ReturnVerdict
    \/ Switch

SpecThreads == InitThreads /\ [][NextThreads]_vars

(***************************************************************************)
(* grade_answer run alone, as a function of its arguments and of what the  *)
(* parser does with each pair.                                             *)
(***************************************************************************)
\* what the parser did with the pair, according to the log of its calls
LoggedOutcome(log, ground_truth_elem, given_elem) ==
    IF \E k \in 1..Len(log) : log[k].pair = <<ground_truth_elem, given_elem>>
    THEN log[CHOOSE k \in 1..Len(log) :
                log[k].pair = <<ground_truth_elem, given_elem>>].outcome
    ELSE "raise"

\* the for loop of lines 478-493 from pair k on, and the return of line 495
RECURSIVE LoopAlone(_, _, _, _, _)
LoopAlone(truth_elems, elems, k, verdict, log) ==
    IF k > Len(truth_elems) \/ k > Len(elems)
    THEN (IF verdict = "unbound" THEN "raise" ELSE verdict)
    ELSE IF PairVerdict(truth_elems[k], elems[k],
                        LoggedOutcome(log, truth_elems[k], elems[k]))
         THEN LoopAlone(truth_elems, elems, k + 1, "True", log)
         ELSE "False"

\* lines 467-495 on the two extended forms
SplitAlone(truth_normalized, normalized, log) ==
    LET truth_elems == split_tuple(truth_normalized)
        elems == split_tuple(normalized)
    IN  IF /\ Len(truth_elems) > 1
           /\ \/ truth_normalized[1] # normalized[1]
              \/ truth_normalized[Len(truth_normalized)] # normalized[Len(normalized)]
        THEN "False"
        ELSE IF Len(truth_elems) # Len(elems) THEN "False"
        ELSE LoopAlone(truth_elems, elems, 1, "unbound", log)

\* lines 441-495 for answers that are not LaTeX
GradeAlone(given, truth, log) ==
    IF given = None \/ given = <<>> THEN "False"
    ELSE IF normalize_answer(truth) = normalize_answer(given) THEN "True"
    ELSE IF _normalize(truth, Raise) = None THEN "False"
    ELSE IF _normalize(truth, Raise) = _normalize(given, Raise) THEN "True"
    ELSE IF Len(_normalize(given, Raise)) = 0 THEN "False"
    ELSE SplitAlone(_normalize(truth, Raise), _normalize(given, Raise), log)

(***************************************************************************)
(* One call of grade_answer on answers that each reach one step of the two *)
(* normalizers: near-integers with thousands commas or a detached sign,    *)
(* digit runs apart, bare fractions, assignments.                          *)
(***************************************************************************)
Probes ==
    { <<>>,
      <<"x", "+", "1">>,
      <<"1", "+", "x">>,
      <<"(", "1", ",", "2", ")">>,
      <<"(", "1", ",", "3", ")">>,
      <<"1", ",", "0", "0", "0", ".", "9", "9", "9", "9", "9", "9", "9", "9">>,
      <<"1", ",", "0", "0", "0", ".", "0", "0", "0", "0", "0", "0", "0", "1">>,
      <<"-", " ", "0", ".", "9", "9", "9", "9", "9", "9", "9", "9">>,
      <<"0", ".", "9", "9", "9", "9", "9", "9", "9", "9">>,
      <<"1", ",", "0", "0", "0">>,
      <<"1", "0", "0", "1">>,
      <<"1", ",", "0", "0", "0", ",", "0", "0", "0">>,
      <<"1", ",", "0", "0", "0", ",", "0", "0", "0", ",", "0", "0", "0">>,
      <<"(", "1", ",", "0", "0", "0", ",", "2", ",", "0", "0", "0", ")">>,
      <<"1", ",", "0", "0">>,
      <<"(", "2", ",", "x", "+", "1", ")">>,
      <<"(", "2", ",", "1", "+", "x", ")">>,
      <<"(", "3", ",", "1", "+", "x", ")">>,
      <<"1", "/", "2">>,
      <<"-", "1", "/", "2">>,
      <<"1", "/", "-", "2">>,
      <<"1", "0", "/", "2", "0">>,
      <<"0", "1", "/", "2">>,
      <<"1", "/", "0", "2">>,
      <<"+", "1", "/", "2">>,
      <<"-", "0", "/", "2">>,
      <<"1", "/", "2", "/", "3">>,
      <<"1", "/", "2", "x">>,
      <<"1", "/">>,
      <<"k", " ", "=", " ", "5">>,
      <<"a", "b", " ", "=", " ", "5">>,
      <<"a", "b", "=", "5">>,
      <<"x", "=", "1", "=", "2">>,
      <<"=", "5">>,
      <<"1", " ", "2", " ", "3">>,
      <<"1", " ", "2", "2", " ", "3">>,
      <<"1", " ", " ", "2">>,
      <<"x", "^", "1", "0">>,
      <<"x", "^", "9">>,
      <<"x", "^", "2", "^", "3">> }

InitProbes ==
    /\ given_answer \in Probes
    /\ ground_truth \in Probes
    /\ pc = "start"
    /\ ground_truth_normalized_mathd = Unset
    /\ given_answer_normalized_mathd = Unset
    /\ ground_truth_normalized = Unset
    /\ given_normalized = Unset
    /\ ground_truth_elems = Unset
    /\ given_elems = Unset
    /\ idx = 0
    /\ is_correct = "unbound"
    /\ sympy_calls = <<>>
    /\ result = "none"
    /\ response_text = Unset
    /\ correct = Unset
    /\ suspended = Unset
    /\ running = 1
    /\ NotCalled

SpecProbes == InitProbes /\ [][Next]_vars

(***************************************************************************)
(* get_all_combinations (prompts/create_templates.py).  A component is a   *)
(* record of its name and its form; two components of a list may be equal. *)
(* The generator is followed from its first next() to its StopIteration.   *)
(***************************************************************************)
MaxComponents == 3

\* grade_answer is not called: its frame and its caller's row are unassigned
NoGrading ==
    /\ given_answer = Unset
    /\ ground_truth = Unset
    /\ pc = "idle"
    /\ ground_truth_normalized_mathd = Unset
    /\ given_answer_normalized_mathd = Unset
    /\ ground_truth_normalized = Unset
    /\ given_normalized = Unset
    /\ ground_truth_elems = Unset
    /\ given_elems = Unset
    /\ idx = 0
    /\ is_correct = "unbound"
    /\ sympy_calls = <<>>
    /\ result = "none"
    /\ response_text = Unset
    /\ correct = Unset
    /\ suspended = Unset
    /\ running = 1

\* lines 33-39: the pairs (i, c) of enumerate(components) whose component is a
\* BASE component (base = TRUE) or is not (base = FALSE), in the order of the
\* list
ComponentsWithIndex(comps, base) ==
    SelectSeq([i \in 1..Len(comps) |-> <<i - 1, comps[i]>>],
              LAMBDA p : (p[2].form = "base") = base)

\* a sort that leaves the pairs as they are
SortedByIndex_Unsorted(pairs) == pairs

\* sorted(pairs, key=lambda x: x[0]): by the first member, pairs of equal key
\* in the order they had
RECURSIVE SortedByIndex(_)
SortedByIndex(pairs) ==
    IF pairs = <<>> THEN <<>>
    ELSE LET head == Head(pairs)
             rest == SortedByIndex(Tail(pairs))
         IN SelectSeq(rest, LAMBDA p : p[1] < head[1])
                \o <<head>>
                \o SelectSeq(rest, LAMBDA p : p[1] >= head[1])

\* itertools.combinations(pool, r) after it gave the places indices of a pool
\* of n: the places it gives next, as a set of one tuple, or no tuple when it
\* stops.  The rightmost place that can move moves by one and the places to
\* its right follow it.
NextCombination(indices, n) ==
    LET r == Len(indices)
        movable == {i \in 1..r : indices[i] # i + n - r}
    IN IF movable = {} THEN {}
       ELSE LET i == CHOOSE m \in movable : \A o \in movable : o <= m
            IN {[j \in 1..r |->
                    IF j < i THEN indices[j] ELSE indices[i] + 1 + (j - i)]}

InitTemplates ==
    /\ NoGrading
    /\ components \in
         UNION {[1..n -> [name : {"a", "b"}, form : {"base", "text", "example"}]] :
                   n \in 0..MaxComponents}
    /\ gen_pc = "start"
    /\ ablation_size = 0
    /\ combo = <<>>
    /\ yielded = <<>>
    /\ provider = Unset
    /\ data_dir = Unset
    /\ batch_pc = "idle"
    /\ batch_id = Unset
    /\ processing_status = Unset
    /\ batch = Unset
    /\ polls = 0
    /\ response_path = Unset
    /\ files = Unset
    /\ batch_return = Unset

\* the first next(): lines 33-47 when every component is a BASE component,
\* lines 33-39 and 50-66 up to the first yield otherwise.  A yield is recorded
\* with the sorted pairs it was made from (lines 61-63) and the list yielded.
StartGenerator ==
    /\ gen_pc = "start"
    /\ LET base_components_with_index == ComponentsWithIndex(components, TRUE)
           ablatable_components_with_index ==
               ComponentsWithIndex(components, FALSE)
           sorted_pairs == SortedByIndex(base_components_with_index)
           sorted_combo ==
               [k \in 1..Len(sorted_pairs) |-> sorted_pairs[k][2]]
       IN /\ yielded' = Append(yielded, [with_index |-> sorted_pairs,
                                         sorted_combo |-> sorted_combo])
          /\ gen_pc' = IF ablatable_components_with_index = <<>>
                       THEN "yielded_base" ELSE "suspended"
    /\ ablation_size' = 0
    /\ combo' = <<>>
    /\ UNCHANGED components
    /\ UNCHANGED <<given_answer, ground_truth, pc,
                   ground_truth_normalized_mathd,
                   given_answer_normalized_mathd, ground_truth_normalized,
                   given_normalized, ground_truth_elems, given_elems, idx,
                   is_correct, sympy_calls, result>>
    /\ UNCHANGED <<caller_vars, batch_vars>>

\* a later next(): the return of line 47, or the next turn of the loops of
\* lines 51-52 up to its yield, or the end of the loops
ResumeGenerator ==
    /\ gen_pc \in {"yielded_base", "suspended"}
    /\ LET base_components_with_index == ComponentsWithIndex(components, TRUE)
           ablatable_components_with_index ==
               ComponentsWithIndex(components, FALSE)
           n == Len(ablatable_components_with_index)
           following == NextCombination(combo, n)
           more == gen_pc = "suspended" /\ (following # {} \/ ablation_size < n)
           next_combo ==
               IF following # {} THEN CHOOSE c \in following : TRUE
               ELSE [k \in 1..(ablation_size + 1) |-> k]
           all_components_with_index ==
               base_components_with_index
                   \o [k \in 1..Len(next_combo) |->
                          ablatable_components_with_index[next_combo[k]]]
           sorted_pairs == SortedByIndex(all_components_with_index)
           sorted_combo ==
               [k \in 1..Len(sorted_pairs) |-> sorted_pairs[k][2]]
       IN IF more
          THEN /\ combo' = next_combo
               /\ ablation_size' = Len(next_combo)
               /\ yielded' = Append(yielded, [with_index |-> sorted_pairs,
                                              sorted_combo |-> sorted_combo])
               /\ gen_pc' = "suspended"
          ELSE /\ gen_pc' = "exhausted"
               /\ UNCHANGED <<ablation_size, combo, yielded>>
    /\ UNCHANGED components
    /\ UNCHANGED <<given_answer, ground_truth, pc,
                   ground_truth_normalized_mathd,
                   given_answer_normalized_mathd, ground_truth_normalized,
                   given_normalized, ground_truth_elems, given_elems, idx,
                   is_correct, sympy_calls, result>>
    /\ UNCHANGED <<caller_vars, batch_vars>>

NextTemplates ==
    \/ StartGenerator
    \/ ResumeGenerator

SpecTemplates == InitTemplates /\ [][NextTemplates]_vars

(***************************************************************************)
(* LLMInterface.make_batch_request (apis/llm_interface.py).  The calls of  *)
(* the client return; the provider moves a batch it has created from       *)
(* 'in_progress' to 'ended', by way of 'canceling' or not, when it likes   *)
(* or never, and an ended batch stays ended.  A local that is a str holds  *)
(* the text of Unset until it is assigned.                                 *)
(***************************************************************************)
MaxPolls == 3

InitBatch ==
    /\ NoGrading
    /\ components = Unset
    /\ gen_pc = "idle"
    /\ ablation_size = 0
    /\ combo = Unset
    /\ yielded = Unset
    /\ provider \in {"anthropic", "openai", "google", "mock"}
    /\ data_dir \in {"", "data/math_reasoning"}
    /\ batch_pc = "start"
    /\ batch_id = Unset[1]
    /\ processing_status = Unset[1]
    /\ batch = Unset[1]
    /\ polls = 0
    /\ response_path = Unset
    /\ files = {}
    /\ batch_return = Unset

\* lines 146-176: the test of the provider, then batches.create; the
\* provider chooses the id
CreateBatch ==
    /\ batch_pc = "start"
    /\ IF provider # "anthropic"
       THEN /\ batch_return' = <<"NotImplementedError">>
            /\ batch_pc' = "raised"
            /\ UNCHANGED <<batch_id, processing_status>>
       ELSE /\ batch_id' \in {"msgbatch_01", "msgbatch_02"}
            /\ processing_status' = "in_progress"
            /\ batch_pc' = "sleep"
            /\ UNCHANGED batch_return
    /\ UNCHANGED <<provider, data_dir, batch, polls, response_path, files>>
    /\ UNCHANGED <<given_answer, ground_truth, pc,
                   ground_truth_normalized_mathd,
                   given_answer_normalized_mathd, ground_truth_normalized,
                   given_normalized, ground_truth_elems, given_elems, idx,
                   is_correct, sympy_calls, result>>
    /\ UNCHANGED <<caller_vars, template_vars>>

\* a loop that is left after one retrieve call, whatever it reported
RetrieveBatch_AnyStatus ==
    /\ batch_pc = "sleep"
    /\ batch' = processing_status
    /\ batch_pc' = "ended"
    /\ UNCHANGED <<provider, data_dir, batch_id, processing_status, polls,
                   response_path, files, batch_return>>
    /\ UNCHANGED <<given_answer, ground_truth, pc,
                   ground_truth_normalized_mathd,
                   given_answer_normalized_mathd, ground_truth_normalized,
                   given_normalized, ground_truth_elems, given_elems, idx,
                   is_correct, sympy_calls, result>>
    /\ UNCHANGED <<caller_vars, template_vars>>

\* lines 178-186: after a sleep, one turn of the loop: batches.retrieve, and
\* break when it reports 'ended'.  At most MaxPolls turns that do not report
\* 'ended' are followed.
RetrieveBatch ==
    /\ batch_pc = "sleep"
    /\ processing_status = "ended" \/ polls < MaxPolls
    /\ batch' = processing_status
    /\ IF processing_status = "ended"
       THEN /\ batch_pc' = "ended"
            /\ UNCHANGED polls
       ELSE /\ batch_pc' = "sleep"
            /\ polls' = polls + 1
    /\ UNCHANGED <<provider, data_dir, batch_id, processing_status,
                   response_path, files, batch_return>>
    /\ UNCHANGED <<given_answer, ground_truth, pc,
                   ground_truth_normalized_mathd,
                   given_answer_normalized_mathd, ground_truth_normalized,
                   given_normalized, ground_truth_elems, given_elems, idx,
                   is_correct, sympy_calls, result>>
    /\ UNCHANGED <<caller_vars, template_vars>>

\* lines 188-190: the path of the results, as its parts
BatchResultsPath(dir, id) ==
    IF dir # "" THEN <<dir, "/", "batch_results_", id, ".jsonl">>
    ELSE <<"batch_results_", id, ".jsonl">>

\* lines 188-197: the path, the file written with batches.results of the
\* batch, and the return
SaveResults ==
    /\ batch_pc = "ended"
    /\ response_path' = BatchResultsPath(data_dir, batch_id)
    /\ files' = files \cup {[path |-> response_path', results_of |-> batch_id]}
    /\ batch_return' = <<batch_id, response_path'>>
    /\ batch_pc' = "done"
    /\ UNCHANGED <<provider, data_dir, batch_id, processing_status, batch,
                   polls>>
    /\ UNCHANGED <<given_answer, ground_truth, pc,
                   ground_truth_normalized_mathd,
                   given_answer_normalized_mathd, ground_truth_normalized,
                   given_normalized, ground_truth_elems, given_elems, idx,
                   is_correct, sympy_calls, result>>
    /\ UNCHANGED <<caller_vars, template_vars>>

\* the provider works on the batch: line 181 reads the processing_status it
\* has reached
ServerProgress ==
    /\ processing_status \in {"in_progress", "canceling"}
    /\ processing_status' \in
         IF processing_status = "in_progress" THEN {"canceling", "ended"}
         ELSE {"ended"}
    /\ UNCHANGED <<provider, data_dir, batch_pc, batch_id, batch, polls,
                   response_path, files, batch_return>>
    /\ UNCHANGED <<given_answer, ground_truth, pc,
                   ground_truth_normalized_mathd,
                   given_answer_normalized_mathd, ground_truth_normalized,
                   given_normalized, ground_truth_elems, given_elems, idx,
                   is_correct, sympy_calls, result>>
    /\ UNCHANGED <<caller_vars, template_vars>>

NextBatch ==
    \/ CreateBatch
    \/ RetrieveBatch
    \/ SaveResults
    \/ ServerProgress

\* the call is one thread of straight code: a statement it can execute, it
\* executes.  Nothing is assumed of the provider.
SpecBatch ==
    /\ InitBatch
    /\ [][NextBatch]_vars
    /\ WF_vars(CreateBatch)
    /\ WF_vars(RetrieveBatch)
    /\ WF_vars(SaveResults)

(***************************************************************************)
(* The properties of grade_answer.                                         *)
(***************************************************************************)
S_5 == <<"5">>

S_half_slash == <<"1", "/", "2">>

S_x_plus_1 == <<"x", "+", "1">>

S_1_plus_x == <<"1", "+", "x">>

\* C1 as stated: whenever the syntactic normal forms of the two arguments are
\* equal, the call returns true.
C1_Original ==
    (/\ pc = "done"
     /\ normalize_answer(given_answer) = normalize_answer(ground_truth))
        => result = "True"

\* C1, amended: for a given answer that is neither absent nor empty, equal
\* syntactic normal forms make the call return true, whatever the later tiers
\* would have said.
C1_BaselineFloor ==
    (/\ pc = "done"
     /\ given_answer # None
     /\ given_answer # <<>>
     /\ normalize_answer(given_answer) = normalize_answer(ground_truth))
        => result = "True"

\* 1/2 against \frac{1}{2}: different strings, one syntactic normal form
C1_Witness ==
    /\ pc = "done"
    /\ given_answer = S_half_slash
    /\ ground_truth = FRAC_HALF
    /\ given_answer_normalized_mathd = ground_truth_normalized_mathd
    /\ result = "True"

\* C2: an absent or empty given answer is graded false, for every ground truth,
\* and the call ends before any normal form is computed.
C2_AbsentOrEmpty ==
    (given_answer \in {None, <<>>} /\ pc # "start")
        => /\ pc = "done"
           /\ result = "False"
           /\ ground_truth_normalized_mathd = Unset
           /\ given_answer_normalized_mathd = Unset
           /\ ground_truth_normalized = Unset
           /\ given_normalized = Unset

C2_Witness ==
    /\ pc = "done"
    /\ given_answer = <<>>
    /\ ground_truth = S_5
    /\ result = "False"

\* C3: the call never raises: for every pair of arguments, absent ones
\* included, what it returns is True or False; an absent ground truth gives
\* False, and so does a pair on which the parser or the simplifier raises.
C3_Total ==
    /\ result # "raise"
    /\ pc = "done" => result \in {"True", "False"}
    /\ (pc = "done" /\ ground_truth = None) => result = "False"
    /\ (Len(sympy_calls) > 0 /\ sympy_calls[Len(sympy_calls)].outcome = "raise")
          => is_correct = "False"

\* x+1 against 1+x reaches the parser, which raises
C3_Witness ==
    /\ pc = "done"
    /\ given_answer = S_x_plus_1
    /\ ground_truth = S_1_plus_x
    /\ Len(sympy_calls) = 1
    /\ sympy_calls[1].outcome = "raise"
    /\ result = "False"

\* the extended normal form of an answer that needs no LaTeX conversion
ExtendedForm(answer) == _normalize(answer, Raise)

\* the number of elements split_tuple finds in it (the form is computed
\* before it is handed on)
ElemCount(answer) ==
    LET form == ExtendedForm(answer)
    IN IF Len(form) = 0 THEN Len(split_tuple(<<>>)) ELSE Len(split_tuple(form))

PlainPair ==
    /\ given_answer # None
    /\ ground_truth # None
    /\ ~UsesLatex(given_answer)
    /\ ~UsesLatex(ground_truth)

S_tuple_12 == <<"(", "1", ",", "2", ")">>

S_tuple_123 == <<"(", "1", ",", "2", ",", "3", ")">>

S_tuple_1_2 == <<"(", "1", ",", " ", "2", ")">>

\* C4 as stated: a given answer whose extended normal form decomposes into a
\* number of elements other than the ground truth's is graded false.
C4_Original ==
    (pc = "done" /\ PlainPair /\ ElemCount(ground_truth) # ElemCount(given_answer))
        => result = "False"

\* C4, amended: a given answer whose syntactic normal form differs from the
\* ground truth's and whose extended normal form decomposes into a number of
\* elements other than the ground truth's is graded false (a call that does
\* not return false on syntactically different answers has found equal
\* counts); so is every call that reaches the decomposition and finds
\* different counts.
C4_CountMismatch ==
    /\ (/\ pc = "done"
        /\ given_elems # Unset
        /\ Len(ground_truth_elems) # Len(given_elems))
          => result = "False"
    /\ (/\ pc = "done"
        /\ result # "False"
        /\ PlainPair
        /\ normalize_answer(given_answer) # normalize_answer(ground_truth))
          => ElemCount(ground_truth) = ElemCount(given_answer)

\* (1,2,3) against (1,2): same brackets, three elements against two
C4_Witness ==
    /\ pc = "done"
    /\ given_answer = S_tuple_123
    /\ ground_truth = S_tuple_12
    /\ Len(ground_truth_elems) = 2
    /\ Len(given_elems) = 3
    /\ result = "False"

BothFrac(k) == _is_frac(ground_truth_elems[k]) /\ _is_frac(given_elems[k])

IntMismatch(k) == _str_is_int(ground_truth_elems[k]) # _str_is_int(given_elems[k])

S_2_4 == <<"2", "/", "4">>

S_tuple_half_3 == <<"(", "1", "/", "2", ",", "3", ")">>

S_tuple_2_4_3 == <<"(", "2", "/", "4", ",", "3", ")">>

S_tuple_half_x == <<"(", "1", "/", "2", ",", "x", ")">>

\* C5: a pair of elements that both match the fraction pattern passes exactly
\* when the two strings are identical, and is never handed to the parser; 2/4
\* against 1/2 is graded false, 1/2 against 1/2 true.
C5_FractionStrict ==
    /\ idx >= 1 =>
          \A k \in 1..(idx - 1) :
              BothFrac(k) => ground_truth_elems[k] = given_elems[k]
    /\ (idx >= 1 /\ is_correct = "False" /\ BothFrac(idx))
          => ground_truth_elems[idx] # given_elems[idx]
    /\ \A k \in 1..Len(sympy_calls) :
          ~(_is_frac(sympy_calls[k].pair[1]) /\ _is_frac(sympy_calls[k].pair[2]))
    /\ (pc = "done" /\ given_answer = S_2_4 /\ ground_truth = S_half_slash)
          => result = "False"
    /\ (pc = "done" /\ given_answer = S_half_slash /\ ground_truth = S_half_slash)
          => result = "True"

\* (2/4,3) against (1/2,3): the first pair is fraction against fraction
C5_Witness ==
    /\ pc = "done"
    /\ given_answer = S_tuple_2_4_3
    /\ ground_truth = S_tuple_half_3
    /\ idx = 1
    /\ BothFrac(1)
    /\ sympy_calls = <<>>
    /\ result = "False"

\* C6: a pair of which exactly one element is an integer for _str_is_int (and
\* which is not fraction against fraction) fails, the call returns false, and
\* the pair is never handed to the parser.
C6_IntMismatch ==
    /\ \A k \in 1..Len(sympy_calls) :
          _str_is_int(sympy_calls[k].pair[1]) = _str_is_int(sympy_calls[k].pair[2])
    /\ idx >= 1 =>
          \A k \in 1..(idx - 1) : ~BothFrac(k) => ~IntMismatch(k)
    /\ (/\ pc = "done"
        /\ idx >= 1
        /\ \E k \in 1..ZipLen : ~BothFrac(k) /\ IntMismatch(k))
          => result = "False"

\* (1/2,x) against (1/2,3): the second pair is x against the integer 3
C6_Witness ==
    /\ pc = "done"
    /\ given_answer = S_tuple_half_x
    /\ ground_truth = S_tuple_half_3
    /\ idx = 2
    /\ IntMismatch(2)
    /\ sympy_calls = <<>>
    /\ result = "False"

\* digits with one '.', in the form float() reads, without an exponent
IsDecimal(s) ==
    /\ FloatFinite(s)
    /\ ExpPos(FloatBody(s)) = 0
    /\ \E i \in 1..Len(s) : s[i] = "."

NearestInt(s) == IntToStr(RoundVal(FloatVal(s)))

\* the value of the decimal s is at most, less than, more than 1e-7 away from
\* the nearest integer
IsWithin(s) == IsDecimal(s) /\ DistCmp(FloatVal(s)) <= 0

IsNearInt(s) == IsDecimal(s) /\ DistCmp(FloatVal(s)) < 0

IsFarFromInt(s) == IsDecimal(s) /\ DistCmp(FloatVal(s)) > 0

S_1 == <<"1">>

S_2 == <<"2">>

S_3 == <<"3">>

S_3_0 == <<"3", ".", "0">>

S_1_0000001 == <<"1", ".", "0", "0", "0", "0", "0", "0", "1">>

S_2_0000001 == <<"2", ".", "0", "0", "0", "0", "0", "0", "1">>

\* C7 as stated: a decimal whose value is within 1e-7 of an integer n has the
\* decimal string of n as its extended normal form and is graded equal to n.
C7_Original ==
    /\ IsWithin(given_answer) => ExtendedForm(given_answer) = NearestInt(given_answer)
    /\ (/\ pc = "done"
        /\ IsWithin(given_answer)
        /\ ground_truth = NearestInt(given_answer))
          => result = "True"

\* C7, amended: a decimal whose value is less than 1e-7 away from an integer n
\* has the decimal string of n as its extended normal form and is graded equal
\* to n, in either argument order; a decimal whose value is more than 1e-7 away
\* from every integer is graded false against every integer ground truth; at
\* exactly 1e-7 the rounding of the double decides: 1.0000001 against 1 is
\* graded false, 2.0000001 against 2 true.
C7_DecimalCoercion ==
    /\ IsNearInt(given_answer) => ExtendedForm(given_answer) = NearestInt(given_answer)
    /\ (/\ pc = "done"
        /\ IsNearInt(given_answer)
        /\ ground_truth = NearestInt(given_answer))
          => result = "True"
    /\ (/\ pc = "done"
        /\ IsNearInt(ground_truth)
        /\ given_answer = NearestInt(ground_truth))
          => result = "True"
    /\ (/\ pc = "done"
        /\ IsFarFromInt(given_answer)
        /\ IntOk(ground_truth))
          => result = "False"
    /\ (pc = "done" /\ given_answer = S_1_0000001 /\ ground_truth = S_1)
          => result = "False"
    /\ (pc = "done" /\ given_answer = S_2_0000001 /\ ground_truth = S_2)
          => result = "True"

\* 3 against 3.0: the syntactic forms differ, the extended forms are both 3
C7_Witness ==
    /\ pc = "done"
    /\ given_answer = S_3
    /\ ground_truth = S_3_0
    /\ ground_truth_normalized = S_3
    /\ given_normalized = S_3
    /\ result = "True"

\* (,ddd)* is all of t
RECURSIVE ThousandsGroups(_)
ThousandsGroups(t) ==
    \/ t = <<>>
    \/ /\ Len(t) >= 4
       /\ t[1] = ","
       /\ AllDigits(SubSeq(t, 2, 4))
       /\ ThousandsGroups(From(t, 5))

\* an integer with thousands separators: digits, then at least one group ,ddd
WellFormedThousands(s) ==
    \E n \in 1..Len(s) :
        /\ AllDigits(SubSeq(s, 1, n))
        /\ Len(s) > n
        /\ ThousandsGroups(From(s, n + 1))

NoCommas(s) == SelectSeq(s, LAMBDA c : c # ",")

S_1000 == <<"1", "0", "0", "0">>

S_1_000 == <<"1", ",", "0", "0", "0">>

Bracketed(s) ==
    /\ s # None
    /\ Len(s) > 2
    /\ s[1] \in TUPLE_CHARS
    /\ s[Len(s)] \in TUPLE_CHARS
    /\ \A i \in 2..(Len(s) - 1) : s[i] \notin TUPLE_CHARS

RECURSIVE TrimSpaces(_)
TrimSpaces(e) ==
    IF Len(e) > 0 /\ e[1] = " " THEN TrimSpaces(Tail(e))
    ELSE IF Len(e) > 0 /\ e[Len(e)] = " " THEN TrimSpaces(SubSeq(e, 1, Len(e) - 1))
    ELSE e

TupleElements(s) ==
    LET parts == Split(SubSeq(s, 2, Len(s) - 1), <<",">>)
    IN  [k \in 1..Len(parts) |-> TrimSpaces(parts[k])]

\* two bracketed tuples that differ only in spaces around their elements
SameUpToSpacing(a, b) ==
    /\ Bracketed(a)
    /\ Bracketed(b)
    /\ a[1] = b[1]
    /\ a[Len(a)] = b[Len(b)]
    /\ TupleElements(a) = TupleElements(b)

NoLetterNoBackslash(s) == \A i \in 1..Len(s) : ~IsAlpha(s[i]) /\ s[i] # BS

\* C9 as stated: two bracketed tuples that differ only in space characters
\* around their elements are graded equal.
C9_Original ==
    (pc = "done" /\ SameUpToSpacing(given_answer, ground_truth))
        => result = "True"

\* C9, amended: two bracketed tuples without letters and without backslashes
\* that differ only in space characters around their elements are graded equal.
C9_TupleSpacing ==
    (/\ pc = "done"
     /\ SameUpToSpacing(given_answer, ground_truth)
     /\ NoLetterNoBackslash(given_answer)
     /\ NoLetterNoBackslash(ground_truth))
        => result = "True"

C9_Witness ==
    /\ pc = "done"
    /\ given_answer = S_tuple_1_2
    /\ ground_truth = S_tuple_12
    /\ SameUpToSpacing(given_answer, ground_truth)
    /\ result = "True"

S_0_5 == <<"0", ".", "5">>

SyntacticFormOfHalf == normalize_answer(S_0_5)

\* C10: the syntactic normalizer turns 0.5 into \frac{1}{2}, so \frac{1}{2}
\* against 0.5 is graded true by the baseline tier: no extended normal form is
\* computed and the parser is not called.
C10_HalfAtBaseline ==
    /\ SyntacticFormOfHalf = FRAC_HALF
    /\ (pc = "done" /\ given_answer = FRAC_HALF /\ ground_truth = S_0_5)
          => /\ result = "True"
             /\ ground_truth_normalized = Unset
             /\ given_normalized = Unset
             /\ sympy_calls = <<>>

C10_Witness ==
    /\ pc = "done"
    /\ given_answer = FRAC_HALF
    /\ ground_truth = S_0_5
    /\ ground_truth_normalized_mathd = FRAC_HALF
    /\ result = "True"

S_c_m == <<"c", " ", "m">>

S_cm == <<"c", "m">>

S_1_dot == <<"1", " ", ".">>

\* C11 as stated: the extended normalizer is idempotent, _normalize of the
\* extended normal form of the given answer is that form again.
C11_Original ==
    (/\ pc = "done"
     /\ given_normalized # Unset
     /\ ~UsesLatex(given_answer))
        => ExtendedForm(given_normalized) = given_normalized

\* C11, amended: the extended normalizer is idempotent on the answers that
\* hold no letter and no backslash; on c m, which it turns into cm and cm into
\* the empty string, it is not.
C11_IdempotentWithoutLetters ==
    /\ (/\ pc = "done"
        /\ given_normalized # Unset
        /\ NoLetterNoBackslash(given_answer))
          => ExtendedForm(given_normalized) = given_normalized
    /\ (pc = "done" /\ given_answer = S_c_m /\ given_normalized # Unset)
          => /\ given_normalized = S_cm
             /\ ExtendedForm(given_normalized) = <<>>

\* 1 . has the extended normal form 1, which the normalizer leaves alone
C11_Witness ==
    /\ pc = "done"
    /\ given_answer = S_1_dot
    /\ given_normalized = S_1
    /\ ExtendedForm(given_normalized) = S_1

S_tuple_mixed == <<"[", "1", ",", "2", ")">>

S_assigned_tuple == <<"x", "=", "(", "1", ",", "2", ")">>

\* the first or the last character of the two extended normal forms differ
ShapeDiffers(truth, given) ==
    \/ truth[1] # given[1]
    \/ truth[Len(truth)] # given[Len(given)]

\* the ground truth decomposes into more than one element and the brackets of
\* the given answer are not the ground truth's
ShapeMismatch(truth, given) ==
    /\ ExtendedForm(given) # <<>>
    /\ ElemCount(truth) > 1
    /\ ShapeDiffers(ExtendedForm(truth), ExtendedForm(given))

\* C12 as stated: a ground truth of more than one element and a given answer
\* whose extended normal form begins or ends with another character are graded
\* false, and no pair of elements is compared.
C12_Original ==
    (pc = "done" /\ PlainPair /\ ShapeMismatch(ground_truth, given_answer))
        => result = "False" /\ idx = 0

\* C12, amended: once the baseline tier has not accepted the pair, a ground
\* truth of more than one element and a given answer whose extended normal
\* form begins or ends with another character are graded false, and no pair of
\* elements is compared.
C12_ShapeMismatch ==
    /\ (/\ ground_truth_elems # Unset
        /\ Len(ground_truth_elems) > 1
        /\ ShapeDiffers(ground_truth_normalized, given_normalized))
          => /\ idx = 0
             /\ sympy_calls = <<>>
             /\ pc \in {"return", "done"}
             /\ is_correct = "False"
             /\ pc = "done" => result = "False"
    /\ (/\ pc = "done"
        /\ given_answer_normalized_mathd # ground_truth_normalized_mathd
        /\ ground_truth_normalized # None
        /\ given_normalized # <<>>
        /\ Len(split_tuple(ground_truth_normalized)) > 1
        /\ ShapeDiffers(ground_truth_normalized, given_normalized))
          => /\ result = "False"
             /\ idx = 0
             /\ sympy_calls = <<>>

\* [1,2) against (1,2): two elements each, another opening bracket
C12_Witness ==
    /\ pc = "done"
    /\ given_answer = S_tuple_mixed
    /\ ground_truth = S_tuple_12
    /\ Len(ground_truth_elems) = 2
    /\ Len(given_elems) = 2
    /\ idx = 0
    /\ result = "False"

\* a Python str: no exception on its way out, not None, not an unassigned local
IsStr(s) == \A i \in 1..Len(s) : s[i] \notin {Raise[1], None[1], Unset[1]}

\* what a normalizer returned for the argument arg is None for None, the empty
\* string for the empty string, and a str for every other str
TotalOn(arg, returned) ==
    /\ arg = None <=> returned = None
    /\ arg = <<>> => returned = <<>>
    /\ arg # None => IsStr(returned)

S_frac == <<BS, "f", "r", "a", "c">>

\* C13: normalize_answer and _normalize are total: whatever they return is
\* None for None, the empty string for the empty string and a str for every
\* other str; an exception inside the syntactic rewrites or inside
\* latex_to_text does not leave them.
C13_NormalizersTotal ==
    /\ ground_truth_normalized_mathd # Unset
          => TotalOn(ground_truth, ground_truth_normalized_mathd)
    /\ given_answer_normalized_mathd # Unset
          => TotalOn(given_answer, given_answer_normalized_mathd)
    /\ ground_truth_normalized # Unset
          => TotalOn(ground_truth, ground_truth_normalized)
    /\ given_normalized # Unset
          => TotalOn(given_answer, given_normalized)

\* \frac with nothing behind it: substr[0] raises in _fix_fracs, and
\* normalize_answer returns the answer as it was
C13_Witness ==
    /\ pc = "done"
    /\ given_answer = S_frac
    /\ _strip_string(S_frac) = Raise
    /\ given_answer_normalized_mathd = S_frac
    /\ given_normalized # Unset
    /\ ground_truth = <<>>
    /\ ground_truth_normalized_mathd = <<>>
    /\ ground_truth_normalized = <<>>

\* the guard refuses an expression: more than two distinct letters once sqrt
\* and frac are removed, or one of the substrings ^{ and ^(
GuardRefuses(expr) ==
    \/ count_unknown_letters_in_expr(expr) > 2
    \/ Contains(expr, <<"^", "{">>)
    \/ Contains(expr, <<"^", "(">>)

PairRefused(k) == GuardRefuses(DiffExpr(ground_truth_elems[k], given_elems[k]))

S_abc == <<"a", "b", "c">>

S_X == <<"X">>

S_x_pow_paren == <<"x", "^", "(", "2", ")">>

S_x_pow_brace == <<"x", "^", "{", "2", "}">>

\* are_equal_under_sympy of x^{2} and x^{2}, with a simplifier that would find zero
BracedPowerVerdict == are_equal_under_sympy(S_x_pow_brace, S_x_pow_brace, "zero")

\* C14: are_equal_under_sympy returns false, and the parser is never given the
\* expression, when the difference expression has more than two distinct
\* letters or holds ^{ or ^(: no parser call is logged for such a pair, no
\* such pair has passed the symbolic tier, and the pair the loop stopped at is
\* false.
C14_GuardBeforeEval ==
    /\ \A k \in 1..Len(sympy_calls) :
          ~GuardRefuses(DiffExpr(sympy_calls[k].pair[1], sympy_calls[k].pair[2]))
    /\ (pc = "done" /\ idx >= 1) =>
          \A k \in 1..(idx - 1) :
              PairBranch(ground_truth_elems[k], given_elems[k]) = "sympy"
                  => ~PairRefused(k)
    /\ (/\ pc = "done"
        /\ idx >= 1
        /\ idx <= ZipLen
        /\ PairBranch(ground_truth_elems[idx], given_elems[idx]) = "sympy"
        /\ PairRefused(idx))
          => result = "False"
    /\ (pc = "done" /\ given_answer = S_x_pow_paren /\ ground_truth = S_X)
          => result = "False" /\ sympy_calls = <<>>
    /\ ~BracedPowerVerdict

\* abc against X: the difference (x)-(abc) has four distinct letters
C14_Witness ==
    /\ pc = "done"
    /\ given_answer = S_abc
    /\ ground_truth = S_X
    /\ idx = 1
    /\ PairBranch(ground_truth_elems[1], given_elems[1]) = "sympy"
    /\ count_unknown_letters_in_expr(DiffExpr(ground_truth_elems[1], given_elems[1])) = 4
    /\ sympy_calls = <<>>
    /\ result = "False"

\* the interior of a bracketed string, split on ',', each piece trimmed
TrimmedPieces(e) ==
    LET pieces == Split(SubSeq(e, 2, Len(e) - 1), <<",">>)
    IN  [k \in 1..Len(pieces) |-> Strip(pieces[k])]

\* the contract of split_tuple for the argument expr
SplitContract(expr, elems) ==
    LET e == _strip_properly_formatted_commas(expr)
    IN  IF e = <<>> THEN elems = <<>>
        ELSE IF Bracketed(e) THEN elems = TrimmedPieces(e)
        ELSE elems = <<e>>

S_tuple_tab == <<"(", "1", ",", "\t", "2", ")">>

S_tuple_nested == <<"(", "1", ",", "(", "2", ")", ")">>

S_tuple_thousands == <<"(", "1", ",", "0", "0", "0", ",", "2", ")">>

S_parens == <<"(", ")">>

\* C15: split_tuple returns the empty sequence for the empty string, the
\* trimmed pieces of the interior, in their order, for a comma-stripped string
\* of more than two characters between two of ( ) [ ] with none of them
\* inside, and the comma-stripped string alone in every other case.
C15_SplitContract ==
    /\ ground_truth_elems # Unset
          => SplitContract(ground_truth_normalized, ground_truth_elems)
    /\ given_elems # Unset
          => SplitContract(given_normalized, given_elems)
    /\ (ground_truth_elems # Unset /\ ground_truth = <<>>)
          => ground_truth_elems = <<>>
    /\ (ground_truth_elems # Unset /\ ground_truth = S_tuple_tab)
          => ground_truth_elems = <<S_1, S_2>>
    /\ (ground_truth_elems # Unset /\ ground_truth = S_tuple_thousands)
          => ground_truth_elems = <<S_1000, S_2>>
    /\ (ground_truth_elems # Unset /\ ground_truth = S_tuple_nested)
          => ground_truth_elems = <<S_tuple_nested>>
    /\ (ground_truth_elems # Unset /\ ground_truth = S_parens)
          => ground_truth_elems = <<S_parens>>
    /\ (ground_truth_elems # Unset /\ ground_truth = S_1_000)
          => ground_truth_elems = <<S_1000>>

\* (1, 2) with a tab for the space: the pieces are 1 and tab 2
C15_Witness ==
    /\ pc = "done"
    /\ ground_truth = S_tuple_tab
    /\ ground_truth_normalized = S_tuple_tab
    /\ ground_truth_elems = <<S_1, S_2>>
    /\ given_answer = S_tuple_nested
    /\ given_elems = <<S_tuple_nested>>

\* C18: for x+1 against the ground truth 1+x neither string tier decides,
\* each side is one element that is neither a fraction nor an integer, the
\* guard allows the evaluation, the parser is given (1+x)-(x+1) once, and the
\* call returns true exactly when that difference simplifies to zero.
C18_SymbolicTier ==
    (given_answer = S_x_plus_1 /\ ground_truth = S_1_plus_x) =>
        /\ pc \notin {"start", "baseline"}
              => given_answer_normalized_mathd # ground_truth_normalized_mathd
        /\ pc \notin {"start", "baseline", "extended"}
              => /\ given_normalized = S_x_plus_1
                 /\ ground_truth_normalized = S_1_plus_x
        /\ pc \in {"loop", "return", "done"}
              => /\ ground_truth_elems = <<S_1_plus_x>>
                 /\ given_elems = <<S_x_plus_1>>
                 /\ PairBranch(ground_truth_elems[1], given_elems[1]) = "sympy"
                 /\ ~_is_frac(given_elems[1]) /\ ~_is_frac(ground_truth_elems[1])
                 /\ ~_str_is_int(given_elems[1]) /\ ~_str_is_int(ground_truth_elems[1])
                 /\ should_allow_eval(DiffExpr(ground_truth_elems[1], given_elems[1]))
        /\ pc = "done"
              => /\ Len(sympy_calls) = 1
                 /\ sympy_calls[1].pair = <<S_1_plus_x, S_x_plus_1>>
                 /\ result = PyBool(sympy_calls[1].outcome = "zero")

\* the simplifier finds (1+x)-(x+1) to be zero
C18_Witness ==
    /\ pc = "done"
    /\ given_answer = S_x_plus_1
    /\ ground_truth = S_1_plus_x
    /\ DiffExpr(ground_truth_elems[1], given_elems[1])
          = <<"(", "1", "+", "x", ")", "-", "(", "x", "+", "1", ")">>
    /\ sympy_calls[1].outcome = "zero"
    /\ result = "True"

UNITS_OPEN == <<BS, "t", "e", "x", "t", "{", " ">>

\* the answer as normalize_answer hands it to _strip_string
Inner(answer) ==
    LET stripped == Strip(answer)
    IN  IF TextMatches(stripped) THEN Strip(TextGroup(stripped)) ELSE stripped

\* the string that reaches the units step of _strip_string
UnitsStepInput(answer) ==
    LET r == ApplyReplacements(Inner(answer), multi_char_replacements, 1)
    IN  IF Len(r) > 0 /\ r[1] = "." THEN <<"0">> \o r ELSE r

\* the units pattern occurs more than once in that string
UnitsTwice(answer) ==
    /\ answer # None
    /\ Inner(answer) # <<>>
    /\ Len(Split(UnitsStepInput(answer), UNITS_OPEN)) > 2

\* the pipeline with the units step passing the string through unchanged and
\* every other rewrite applied
RestOfPipeline(answer) ==
    LET s3 == _fix_sqrt(DropAssignment(UnitsStepInput(answer)))
        s4 == IF s3 = Raise THEN Raise ELSE _fix_fracs(RemoveSpaces(s3))
        s5 == IF s4 = Raise THEN Raise ELSE _fix_a_slash_b(HalfToFrac(s4))
    IN  IF s5 = Raise THEN Inner(answer) ELSE s5

\* the state in which lines 444-453 have just been executed
BaselineJustRan ==
    /\ given_answer_normalized_mathd # Unset
    /\ ground_truth_normalized = Unset

S_units_twice ==
    <<"1", " ", BS, "t", "e", "x", "t", "{", " ", "a", "}",
      BS, "t", "e", "x", "t", "{", " ", "b", "}">>

S_units_once == <<"1", " ", BS, "t", "e", "x", "t", "{", " ", "a", "}">>

\* C19 as stated: with the units pattern more than once in the string, only
\* the removal of the units is skipped and every other rewrite is applied.
C19_Original ==
    (BaselineJustRan /\ UnitsTwice(given_answer))
        => given_answer_normalized_mathd = RestOfPipeline(given_answer)

\* C19, amended: with the units pattern more than once in the string that
\* reaches the units step, every rewrite of _strip_string is given up:
\* normalize_answer returns the answer as it was handed to _strip_string,
\* stripped and without an enclosing \text{}, its spaces still in place; with
\* the pattern once, the units are cut off and the rewrites applied.
C19_UnitsTwiceSkipsAll ==
    /\ (BaselineJustRan /\ UnitsTwice(given_answer))
          => given_answer_normalized_mathd = Inner(given_answer)
    /\ (BaselineJustRan /\ UnitsTwice(ground_truth))
          => ground_truth_normalized_mathd = Inner(ground_truth)
    /\ (given_answer_normalized_mathd # Unset /\ given_answer = S_units_twice)
          => given_answer_normalized_mathd = S_units_twice
    /\ (given_answer_normalized_mathd # Unset /\ given_answer = S_units_once)
          => given_answer_normalized_mathd = S_1

\* 1 \text{ a}\text{ b}: the space after 1 is still there
C19_Witness ==
    /\ pc = "done"
    /\ given_answer = S_units_twice
    /\ UnitsTwice(given_answer)
    /\ given_answer_normalized_mathd = S_units_twice
    /\ RestOfPipeline(given_answer) # S_units_twice

FRAC_A_B == <<BS, "f", "r", "a", "c", "{", "a", "}", "{", "b", "}">>

S_frac_ab == <<BS, "f", "r", "a", "c", "a", "b">>

S_frac_a_Bb == <<BS, "f", "r", "a", "c", "a", "{", "b", "}">>

S_frac_Ba_b == <<BS, "f", "r", "a", "c", "{", "a", "}", "b">>

\* C20 as stated: \fracab, \fraca{b}, \frac{a}b and \frac{a}{b} all become
\* \frac{a}{b}.
C20_Original ==
    (/\ given_answer_normalized_mathd # Unset
     /\ given_answer \in {S_frac_ab, S_frac_a_Bb, S_frac_Ba_b, FRAC_A_B})
        => /\ _fix_fracs(given_answer) = FRAC_A_B
           /\ given_answer_normalized_mathd = FRAC_A_B

\* C20, amended: \fracab and \fraca{b} become \frac{a}{b} and \frac{a}{b}
\* stays as it is; \frac{a}b, a bracketed numerator before an unbracketed
\* denominator, is left unchanged.
C20_FixFracs ==
    /\ (/\ given_answer_normalized_mathd # Unset
        /\ given_answer \in {S_frac_ab, S_frac_a_Bb, FRAC_A_B})
          => /\ _fix_fracs(given_answer) = FRAC_A_B
             /\ given_answer_normalized_mathd = FRAC_A_B
    /\ (given_answer_normalized_mathd # Unset /\ given_answer = S_frac_Ba_b)
          => /\ _fix_fracs(given_answer) = S_frac_Ba_b
             /\ given_answer_normalized_mathd = S_frac_Ba_b

\* \fraca{b}: an unbracketed numerator before a bracketed denominator
C20_Witness ==
    /\ pc = "done"
    /\ given_answer = S_frac_a_Bb
    /\ given_answer_normalized_mathd = FRAC_A_B

(***************************************************************************)
(* The properties of a row of grade_responses.                             *)
(***************************************************************************)
\* the response text holds the opening and the closing marker
HasBothMarkers(text) == Contains(text, ANSWER_OPEN) /\ Contains(text, ANSWER_CLOSE)

S_open_5 == <<"<", "a", "n", "s", "w", "e", "r", ">", "5">>

\* C16: for a response text that lacks the opening or the closing marker,
\* extract_answer returns the empty string, grade_answer is left at its first
\* test, and the row gets correct = 0, whatever the ground truth is.
C16_MarkersAbsent ==
    ~HasBothMarkers(response_text) =>
        /\ pc # "extract" => given_answer = <<>>
        /\ pc \in {"extract", "start", "done", "graded"}
        /\ ground_truth_normalized_mathd = Unset
        /\ pc = "done" => result = "False"
        /\ pc = "graded" => correct = 0

\* <answer>5 without the closing marker, against the ground truth 5
C16_Witness ==
    /\ pc = "graded"
    /\ response_text = S_open_5 \o <<"s", "o", " ">>
    /\ ground_truth = S_5
    /\ given_answer = <<>>
    /\ correct = 0

(***************************************************************************)
(* The properties of two calls in two threads.                             *)
(***************************************************************************)
S_tuple_1_3 == <<"(", "1", ",", "3", ")">>

\* C17: with two calls of grade_answer in two threads and a switch of threads
\* possible between any two statements, each call returns the verdict that
\* grade_answer run alone returns for its two arguments.
C17_CallsIndependent ==
    /\ pc = "done" => result = GradeAlone(given_answer, ground_truth, sympy_calls)
    /\ suspended.pc = "done" =>
          suspended.result
              = GradeAlone(suspended.given_answer, suspended.ground_truth, sympy_calls)

\* both calls have returned, the first after the second; the first got True
\* from the parser on x+1 against 1+x while the second, switched to and from
\* in the middle of its loop, got False on (1,2) against (1,3)
C17_Witness ==
    /\ pc = "done" /\ suspended.pc = "done"
    /\ running = 1
    /\ given_answer = S_x_plus_1 /\ ground_truth = S_1_plus_x
    /\ result = "True"
    /\ suspended.given_answer = S_tuple_12 /\ suspended.ground_truth = S_tuple_1_3
    /\ suspended.result = "False"
    /\ Len(sympy_calls) = 3
    /\ sympy_calls[2].pair = <<S_1_plus_x, S_x_plus_1>>

(***************************************************************************)
(* The properties of single steps of the normalizers.                      *)
(***************************************************************************)
\* the string the last step of _normalize (lines 306-307) is given, for an
\* answer that is not LaTeX
IntStepInput(answer) ==
    LET head == NormalizeHead(answer)
        e1 == GapSubFrom(head, 1, <<"-">>, <<>>, <<"-">>)
        e2 == Replace(_inject_implicit_mixed_number(e1), <<" ">>, <<>>)
    IN  Lower(Replace(Replace(e2, <<"{">>, <<>>), <<"}">>, <<>>))

\* the string reads as a number that is at most 1e-7 away from an integer
WithinOfInt(t) ==
    /\ FloatFinite(t)
    /\ ExpPos(FloatBody(t)) = 0
    /\ DistCmp(FloatVal(t)) <= 0

S_1000_nines == <<"1", ",", "0", "0", "0", ".", "9", "9", "9", "9", "9", "9", "9", "9">>

\* C21: when the string that reaches the last step of _normalize, its
\* well-formed thousands commas stripped, reads as a value within 1e-7 of an
\* integer n, the extended normal form is the decimal string of n, the integer
\* nearest to the value.
C21_NearestInteger ==
    LET stripped == _strip_properly_formatted_commas(IntStepInput(given_answer))
    IN  (/\ given_normalized # Unset
         /\ given_answer # None
         /\ ~UsesLatex(given_answer)
         /\ IsStr(stripped)
         /\ WithinOfInt(stripped))
            => given_normalized = IntToStr(RoundVal(FloatVal(stripped)))

\* the pair the for loop has taken up: one it is done with, or the one it
\* stopped at
Processed(k) ==
    /\ ground_truth_elems # Unset /\ given_elems # Unset
    /\ k \in 1..ZipLen
    /\ pc \in {"loop", "return", "done"}
    /\ k < idx \/ (k = idx /\ pc # "loop")

\* a caret, digits, and a caret again: two exponents in a chain
ChainedCarets(expr) ==
    \E i, j \in 1..Len(expr) :
        /\ i + 1 < j
        /\ expr[i] = "^" /\ expr[j] = "^"
        /\ \A m \in (i + 1)..(j - 1) : IsDigit(expr[m])

\* a caret followed by two digits or more
LongExponent(expr) ==
    \E i \in 1..(Len(expr) - 2) :
        expr[i] = "^" /\ IsDigit(expr[i + 1]) /\ IsDigit(expr[i + 2])

S_x_pow_10 == <<"x", "^", "1", "0">>

S_x_pow_9 == <<"x", "^", "9">>

S_x_pow_2_pow_3 == <<"x", "^", "2", "^", "3">>

\* C22 as stated: the two patterns of BAD_REGEXES refuse a difference
\* expression only when it has two chained caret exponents.
C22_Original ==
    \A k \in 1..2 :
        (/\ Processed(k)
         /\ \/ CaretDigitsCaret(DiffExpr(ground_truth_elems[k], given_elems[k]))
            \/ CaretTwoDigits(DiffExpr(ground_truth_elems[k], given_elems[k])))
            => ChainedCarets(DiffExpr(ground_truth_elems[k], given_elems[k]))

\* C22, amended: the parser is never given a difference expression with two
\* chained caret exponents or with a caret followed by two digits or more, and
\* it is given every pair of the symbolic branch whose difference expression
\* has neither, at most two distinct letters and no ^{ or ^(; x^10 against x^9
\* and x^2^3 against x^9 are refused, x^9 against x+1 is parsed.
C22_ExponentRule ==
    /\ \A k \in 1..Len(sympy_calls) :
          /\ ~ChainedCarets(DiffExpr(sympy_calls[k].pair[1], sympy_calls[k].pair[2]))
          /\ ~LongExponent(DiffExpr(sympy_calls[k].pair[1], sympy_calls[k].pair[2]))
    /\ \A k \in 1..2 :
          (/\ Processed(k)
           /\ PairBranch(ground_truth_elems[k], given_elems[k]) = "sympy"
           /\ ~PairRefused(k)
           /\ ~ChainedCarets(DiffExpr(ground_truth_elems[k], given_elems[k]))
           /\ ~LongExponent(DiffExpr(ground_truth_elems[k], given_elems[k])))
              => \E j \in 1..Len(sympy_calls) :
                    sympy_calls[j].pair = <<ground_truth_elems[k], given_elems[k]>>
    /\ (pc = "done" /\ given_answer = S_x_pow_10 /\ ground_truth = S_x_pow_9)
          => result = "False" /\ sympy_calls = <<>>
    /\ (pc = "done" /\ given_answer = S_x_pow_2_pow_3 /\ ground_truth = S_x_pow_9)
          => result = "False" /\ sympy_calls = <<>>
    /\ (pc = "done" /\ given_answer = S_x_pow_9 /\ ground_truth = S_x_plus_1)
          => Len(sympy_calls) = 1

\* x^10 against x^9: one caret in each answer, none chained, and no parser call
C22_Witness ==
    /\ pc = "done"
    /\ given_answer = S_x_pow_10
    /\ ground_truth = S_x_pow_9
    /\ Processed(1)
    /\ PairBranch(ground_truth_elems[1], given_elems[1]) = "sympy"
    /\ ~ChainedCarets(DiffExpr(ground_truth_elems[1], given_elems[1]))
    /\ sympy_calls = <<>>
    /\ result = "False"

\* the digit runs of a string of digits and spaces
DigitRuns(s) == SelectSeq(Split(s, <<" ">>), LAMBDA run : run # <<>>)

RECURSIVE JoinWithPlus(_)
JoinWithPlus(runs) ==
    IF Len(runs) = 1 THEN runs[1]
    ELSE runs[1] \o <<"+">> \o JoinWithPlus(Tail(runs))

\* C23: for an answer made of two or more digit runs with only spaces between
\* them, the extended normal form has a '+' between every two adjacent runs:
\* it is the runs joined by '+', and no two runs are joined into one number.
C23_ImplicitPlus ==
    (/\ given_normalized # Unset
     /\ given_answer # None
     /\ \A i \in 1..Len(given_answer) :
            IsDigit(given_answer[i]) \/ given_answer[i] = " "
     /\ Len(DigitRuns(given_answer)) >= 2)
        => given_normalized = JoinWithPlus(DigitRuns(given_answer))

\* the number of commas of a string
CommaCount(s) == Cardinality({i \in 1..Len(s) : s[i] = ","})

\* a digit, a comma, exactly three digits, then a non-digit or the end
HasThousandsPattern(s) ==
    \E i \in 1..(Len(s) - 4) :
        /\ IsDigit(s[i])
        /\ s[i + 1] = ","
        /\ IsDigit(s[i + 2]) /\ IsDigit(s[i + 3]) /\ IsDigit(s[i + 4])
        /\ i + 5 <= Len(s) => ~IsDigit(s[i + 5])

\* every pass of the loop that changes the string removes a comma
RECURSIVE EveryPassRemoves(_)
EveryPassRemoves(expr) ==
    LET next_expr == CommaSubFrom(expr, 1)
    IN  next_expr # expr =>
            /\ CommaCount(next_expr) < CommaCount(expr)
            /\ EveryPassRemoves(next_expr)

S_million == <<"1", ",", "0", "0", "0", ",", "0", "0", "0">>

\* C24: the loop of _strip_properly_formatted_commas ends on the answer: every
\* pass that changes the string removes at least one comma, the body runs at
\* most (number of commas + 1) times, and the string returned holds no digit,
\* comma, exactly three digits, then a non-digit or the end.
C24_StripTerminates ==
    (given_normalized # Unset /\ given_answer # None) =>
        /\ EveryPassRemoves(given_answer)
        /\ StripPasses(given_answer) <= CommaCount(given_answer) + 1
        /\ ~HasThousandsPattern(_strip_properly_formatted_commas(given_answer))

\* 1,000,000 takes three passes: the first removes the first comma only, the
\* second the other one, the third changes nothing
C24_Witness ==
    /\ given_normalized # Unset
    /\ given_answer = S_million
    /\ HasThousandsPattern(StripCommasOnce(given_answer))
    /\ StripPasses(given_answer) = 3
    /\ CommaCount(given_answer) = 2
    /\ _strip_properly_formatted_commas(given_answer) = <<"1", "0", "0", "0", "0", "0", "0">>

\* the last pair the for loop has taken up
LastProcessed ==
    IF pc = "loop" THEN idx - 1 ELSE IF idx <= ZipLen THEN idx ELSE ZipLen

\* the pairs among the first n that reach the parser, in the order of the loop
ParsedPairs(n) ==
    SelectSeq([k \in 1..n |-> <<ground_truth_elems[k], given_elems[k]>>],
              LAMBDA pair : ParserCalled(pair[1], pair[2]))

\* pair k passes, the parser doing what the log says it did
PassedByLog(k) ==
    PairVerdict(ground_truth_elems[k], given_elems[k],
                LoggedOutcome(sympy_calls, ground_truth_elems[k], given_elems[k]))

S_pair_2_sum == <<"(", "2", ",", "x", "+", "1", ")">>

S_pair_3_sum == <<"(", "3", ",", "1", "+", "x", ")">>

\* C25: once the loop is entered the element counts are equal; the parser has
\* been given exactly the pairs (i-th element, i-th element) the loop has taken
\* up, in increasing i; every pair before the one the loop is at has passed;
\* the loop is left at the first pair that fails, is_correct False, or after
\* the last pair, is_correct True; the call returns True exactly when every
\* pair passes.
C25_PairwiseOrder ==
    (ground_truth_elems # Unset /\ given_elems # Unset /\ idx >= 1) =>
        /\ Len(ground_truth_elems) = Len(given_elems)
        /\ [j \in 1..Len(sympy_calls) |-> sympy_calls[j].pair]
              = ParsedPairs(LastProcessed)
        /\ \A k \in 1..ZipLen : k < idx => PassedByLog(k)
        /\ pc \in {"return", "done"} =>
              /\ idx <= ZipLen => ~PassedByLog(idx) /\ is_correct = "False"
              /\ idx > ZipLen => is_correct = "True"
        /\ pc = "done" =>
              (result = "True" <=> \A k \in 1..ZipLen : PassedByLog(k))

\* (2,x+1) against (3,1+x): the first pair fails in the parser and the second,
\* which would reach the parser too, is never handed to it
C25_Witness ==
    /\ pc = "done"
    /\ given_answer = S_pair_2_sum
    /\ ground_truth = S_pair_3_sum
    /\ ZipLen = 2
    /\ idx = 1
    /\ ParserCalled(ground_truth_elems[2], given_elems[2])
    /\ Len(sympy_calls) = 1
    /\ sympy_calls[1].pair = <<S_3, S_2>>
    /\ result = "False"

\* the decimal string str() gives for an integer: digits without a leading
\* zero, or 0, after an optional '-' that is not followed by 0
CanonicalInt(s) ==
    LET d == IF Len(s) > 0 /\ s[1] = "-" THEN Tail(s) ELSE s
    IN  /\ Len(d) > 0
        /\ AllDigits(d)
        /\ Len(d) > 1 => d[1] # "0"
        /\ d = <<"0">> => s = d

\* the place of the only '/' of a string, 0 if it has none or several
OnlySlash(s) ==
    IF Cardinality({i \in 1..Len(s) : s[i] = "/"}) = 1
    THEN CHOOSE i \in 1..Len(s) : s[i] = "/"
    ELSE 0

\* the string is 'a/b' for two integers a and b as str() writes them
CanonicalRatio(s) ==
    /\ OnlySlash(s) # 0
    /\ CanonicalInt(SubSeq(s, 1, OnlySlash(s) - 1))
    /\ CanonicalInt(SubSeq(s, OnlySlash(s) + 1, Len(s)))

\* \frac{a}{b} for the string a/b
AsFrac(s) ==
    FRAC \o <<"{">> \o SubSeq(s, 1, OnlySlash(s) - 1) \o <<"}", "{">>
         \o SubSeq(s, OnlySlash(s) + 1, Len(s)) \o <<"}">>

S_minus_half == <<"-", "1", "/", "2">>

S_01_slash_2 == <<"0", "1", "/", "2">>

\* C26: _fix_a_slash_b turns the answer into \frac{a}{b} when the answer is
\* 'a/b' with one '/' and two integers written as str() writes them, which is
\* then its syntactic normal form, and returns every other answer unchanged.
C26_FixASlashB ==
    (given_answer_normalized_mathd # Unset /\ given_answer # None) =>
        IF CanonicalRatio(given_answer)
        THEN /\ _fix_a_slash_b(given_answer) = AsFrac(given_answer)
             /\ given_answer_normalized_mathd = AsFrac(given_answer)
        ELSE _fix_a_slash_b(given_answer) = given_answer

\* -1/2 becomes \frac{-1}{2}, while 01/2, whose sides are integers too, is
\* not the rendering of its integers and stays
C26_Witness ==
    /\ given_answer = S_minus_half
    /\ given_answer_normalized_mathd = FRAC \o <<"{", "-", "1", "}", "{", "2", "}">>
    /\ ground_truth = S_01_slash_2
    /\ ground_truth_normalized_mathd = S_01_slash_2
    /\ IntOk(<<"0", "1">>)

\* the places of the '=' of a string
EqualsAt(s) == {i \in 1..Len(s) : s[i] = "="}

\* the string has one '=' and at most two characters before it
ShortAssignment(s) ==
    Cardinality(EqualsAt(s)) = 1 /\ (CHOOSE i \in EqualsAt(s) : TRUE) <= 3

\* what follows the only '=' of the string
AfterEquals(s) == SubSeq(s, (CHOOSE i \in EqualsAt(s) : TRUE) + 1, Len(s))

\* letters, digits, spaces and '=', with a letter, a digit or '=' at both
\* ends: no other step of the syntactic normalizer than the drop of the
\* assignment and the removal of the spaces changes such a string
PlainAssignmentText(s) ==
    /\ Len(s) > 0
    /\ \A i \in 1..Len(s) : IsAlpha(s[i]) \/ IsDigit(s[i]) \/ s[i] \in {" ", "="}
    /\ s[1] # " " /\ s[Len(s)] # " "

S_k_is_5 == <<"k", " ", "=", " ", "5">>

S_ab_is_5 == <<"a", "b", " ", "=", " ", "5">>

\* C27: the step keeps only what follows the '=' when the answer has exactly
\* one '=' and at most two characters, spaces included, before it, and leaves
\* every other answer unchanged; the syntactic normal form of an answer of
\* letters, digits, spaces and '=' is the outcome of the step without its
\* spaces.
C27_AssignmentDrop ==
    (given_answer_normalized_mathd # Unset /\ given_answer # None) =>
        /\ DropAssignment(given_answer)
              = IF ShortAssignment(given_answer) THEN AfterEquals(given_answer)
                ELSE given_answer
        /\ PlainAssignmentText(given_answer) =>
              given_answer_normalized_mathd
                  = RemoveSpaces(IF ShortAssignment(given_answer)
                                 THEN AfterEquals(given_answer)
                                 ELSE given_answer)

\* 'k = 5' loses 'k =', its left part 'k ' having two characters; 'ab = 5'
\* keeps 'ab =', its left part 'ab ' having three
C27_Witness ==
    /\ given_answer = S_k_is_5
    /\ given_answer_normalized_mathd = S_5
    /\ ground_truth = S_ab_is_5
    /\ ground_truth_normalized_mathd = <<"a", "b", "=", "5">>

(***************************************************************************)
(* The verdict at the return of line 495.                                  *)
(***************************************************************************)
\* C28: wherever the call stands at the final return, is_correct has been
\* assigned; the given answer's extended normal form, once split, has at least
\* one element, the loop is entered with at least one pair, and the call never
\* ends in an exception.
C28_VerdictAssigned ==
    /\ pc = "return" => is_correct \in {"True", "False"}
    /\ given_elems # Unset => Len(given_normalized) > 0 /\ Len(given_elems) >= 1
    /\ (pc = "loop" /\ idx = 1) => ZipLen >= 1
    /\ pc = "done" => result \in {"True", "False"}

\* an empty ground truth against 1: the ground truth has no element, the counts
\* differ, and the return is reached with False and without the loop
C28_Witness ==
    /\ pc = "return"
    /\ ground_truth = <<>>
    /\ given_answer = S_1
    /\ ground_truth_elems = <<>>
    /\ given_elems = <<S_1>>
    /\ idx = 0
    /\ is_correct = "False"

(***************************************************************************)
(* The properties of get_all_combinations.                                 *)
(***************************************************************************)
\* the places, counted from 0, of the components that are not BASE components,
\* and of those that are
AblatablePlaces ==
    {i \in 0..(Len(components) - 1) : components[i + 1].form # "base"}

BasePlaces ==
    {i \in 0..(Len(components) - 1) : components[i + 1].form = "base"}

\* the places a yielded combination was made from
PlacesOf(y) == {y.with_index[k][1] : k \in 1..Len(y.with_index)}

\* the components at the places of S, in the order of the input list
Sublist(S) ==
    LET places == SelectSeq([i \in 1..Len(components) |-> i - 1],
                            LAMBDA i : i \in S)
    IN [k \in 1..Len(places) |-> components[places[k] + 1]]

RECURSIVE Pow2(_)
Pow2(n) == IF n = 0 THEN 1 ELSE 2 * Pow2(n - 1)

\* C29: every combination get_all_combinations yields holds every BASE
\* component and some of the other components, each at most once and in the
\* order of the input list; no two yields take the same subset of the other
\* components; and when the generator is exhausted it has yielded 2^n
\* combinations for the n components that are not BASE, one for each subset.
C29_AllCombinations ==
    /\ \A k \in 1..Len(yielded) :
          LET places == PlacesOf(yielded[k])
          IN /\ BasePlaces \subseteq places
             /\ places \subseteq BasePlaces \cup AblatablePlaces
             /\ Len(yielded[k].sorted_combo) = Cardinality(places)
             /\ yielded[k].sorted_combo = Sublist(places)
    /\ \A j, k \in 1..Len(yielded) :
          j # k => PlacesOf(yielded[j]) # PlacesOf(yielded[k])
    /\ gen_pc = "exhausted" =>
          /\ Len(yielded) = Pow2(Cardinality(AblatablePlaces))
          /\ {PlacesOf(yielded[k]) \ BasePlaces : k \in 1..Len(yielded)}
                = SUBSET AblatablePlaces

\* the generator is exhausted over a list whose BASE component stands between
\* two components that are not, after its four yields
C29_Witness ==
    /\ gen_pc = "exhausted"
    /\ Len(components) = 3
    /\ components[1].form = "text"
    /\ components[2].form = "base"
    /\ components[3].form = "example"
    /\ Len(yielded) = 4
    /\ yielded[4].sorted_combo = components
    /\ yielded[1].sorted_combo = <<components[2]>>

(***************************************************************************)
(* The properties of make_batch_request.                                   *)
(***************************************************************************)
\* no call of the client has been made
NoClientCall ==
    /\ batch_id = Unset[1]
    /\ processing_status = Unset[1]
    /\ batch = Unset[1]
    /\ polls = 0
    /\ files = {}

\* the results are on disk or the call has returned
SavedOrReturned ==
    \/ files # {}
    \/ response_path # Unset
    \/ batch_pc = "done"
    \/ batch_return \notin {Unset, <<"NotImplementedError">>}

\* C30: make_batch_request writes the results and returns only after a
\* retrieve call has reported 'ended'; a retrieve call that reports another
\* status leaves it in the loop with nothing written; a provider other than
\* 'anthropic' gets NotImplementedError with no call of the client made, and
\* 'anthropic' never gets it; and once the batch has ended, the call comes to
\* return the id of the batch and the path of the results, which hold the
\* results of that batch.
C30_PollUntilEnded ==
    /\ [](SavedOrReturned => batch = "ended")
    /\ [](provider # "anthropic" =>
             /\ NoClientCall
             /\ batch_pc \in {"start", "raised"}
             /\ batch_pc = "raised" <=> batch_return = <<"NotImplementedError">>)
    /\ [](provider = "anthropic" => batch_pc # "raised")
    /\ [][(batch_pc = "sleep" /\ processing_status # "ended") =>
             (batch_pc' = "sleep" /\ ~SavedOrReturned')]_vars
    /\ [][(batch_pc = "sleep" /\ batch_pc' # "sleep") =>
             batch' = "ended"]_vars
    /\ (provider # "anthropic") ~> (batch_pc = "raised")
    /\ (provider = "anthropic" /\ processing_status = "ended")
          ~> (/\ batch_pc = "done"
              /\ batch_return =
                    <<batch_id, BatchResultsPath(data_dir, batch_id)>>
              /\ files = {[path |-> BatchResultsPath(data_dir, batch_id),
                           results_of |-> batch_id]})

\* the call has returned after three retrieve calls that did not report
\* 'ended', the last of them during a cancellation, with a data directory
C30_Witness ==
    /\ batch_pc = "done"
    /\ polls = 3
    /\ data_dir = "data/math_reasoning"
    /\ batch_id = "msgbatch_02"
    /\ batch_return = <<"msgbatch_02", response_path>>
    /\ response_path =
          <<"data/math_reasoning", "/", "batch_results_", "msgbatch_02",
            ".jsonl">>

====
